---- MODULE Spec2Model ----
(***************************************************************************)
(* Model of octavia/controller/worker/v2/tasks/database_tasks.py: the      *)
(* database tasks of the Octavia controller worker.  Every task is a pair  *)
(* execute/revert that reads and writes the persistent store through the   *)
(* repositories; the workflow engine (taskflow) runs the tasks of a flow   *)
(* in order and, when one of them fails, reverts the executed tasks in     *)
(* reverse order, the failed task first with a Failure as its result.      *)
(*                                                                         *)
(* The store is modelled by its rows: prov (provisioning_status, or the    *)
(* amphora status, or ABSENT when the row does not exist), cfg (the        *)
(* user-settable fields an Update*InDB task writes), amp (the other        *)
(* amphora columns the tasks write) and quota (the in-use counters of one  *)
(* project).  A repository call can fail at any time (the database is      *)
(* unreachable): every action draws that outcome with \E.                  *)
(***************************************************************************)
EXTENDS Integers, Sequences, FiniteSets, TLC

\* ------------------------------------------------------------------ bounds
MaxInUse == 4
MaxMembers == 3

\* The limit of every resource kind of the project.  It is one below the
\* largest in-use count so that a project over its limit (a limit lowered after
\* the resources were admitted) is among the states.
QuotaLimit == MaxInUse - 1

\* --------------------------------------------------------------- constants
ROLE_MASTER_PRIORITY == 100
ROLE_BACKUP_PRIORITY == 90

ABSENT == "ABSENT"
NoneId == "None"
Failure == "Failure"

ProvStatuses == {"PENDING_CREATE", "PENDING_UPDATE", "PENDING_DELETE",
                 "ACTIVE", "DELETED", "ERROR"}

\* ---------------------------------------------------------------- entities
LoadBalancers == {"lb1"}
Listeners == {"l1", "l2"}
L7Policies == {"p1"}
L7Rules == {"r1", "r2"}
Pools == {"pool1", "pool2"}
HealthMonitors == {"hm1"}
Members == {"m1", "m2"}
Amphorae == {"a1", "a2"}
Entities == LoadBalancers \cup Listeners \cup L7Policies \cup L7Rules \cup Pools
              \cup HealthMonitors \cup Members \cup Amphorae

QuotaKinds == {"LoadBalancer", "Listener", "Pool", "Member", "HealthMonitor",
               "L7Policy", "L7Rule"}

Workflows == {"w1", "w2"}

\* The relations of the data model: which rows hang under which.  pool1 is
\* the default pool of both listeners; pool2 belongs to the load balancer and
\* is the default or redirect pool of nothing.
ListenersOfLB(lb) == <<"l1", "l2">>
L7PoliciesOf(listener) == IF listener = "l1" THEN <<"p1">> ELSE <<>>
L7RulesOf(l7policy) == IF l7policy = "p1" THEN <<"r1", "r2">> ELSE <<>>
DefaultPoolOf(listener) == <<"pool1">>
RedirectPoolOf(l7policy) == <<>>
HealthMonitorOf(pool) == IF pool = "pool1" THEN <<"hm1">> ELSE <<>>
MembersOf(pool) == IF pool = "pool1" THEN <<"m1", "m2">> ELSE <<>>
L7PolicyOfRule(l7rule) == "p1"
LBOfListener(listener) == "lb1"

VARIABLES
  prov,       \* [Entities -> ProvStatuses \cup {ABSENT}]
  cfg,        \* [Entities -> {"old", "new"}]: the fields set from an update_dict
  amp,        \* [Amphorae -> [role, vrrp_priority, load_balancer_id, compute_id]]
  quota,      \* [QuotaKinds -> Int]: in-use counters of the project
  flow,       \* [Workflows -> Seq(task name)]: the tasks of the workflow, in order
  pos,        \* [Workflows -> Nat]: the task being executed or reverted
  phase,      \* [Workflows -> {"idle", "exec", "revert", "success", "reverted"}]
  results,    \* [Workflows -> Seq({"ok", Failure})]: result of each executed task
  arg,        \* [Workflows -> record]: the inputs the engine passes to the tasks
  fault,      \* [Workflows -> exception raised by the failed execute, or "none"]
  postExec,   \* [Workflows -> [e, st]]: the target row as the last execute left it
  revRaised,  \* [Workflows -> BOOLEAN]: some revert of the workflow raised
  revFail,    \* [Workflows -> BOOLEAN]: some repository call of a revert failed
  rplan,      \* [Workflows -> Seq(QuotaKinds)]: re-increments a quota revert still owes
  attempts,   \* [Workflows -> [QuotaKinds -> Nat]]: check_quota_met calls of the revert
  reinc,      \* [Workflows -> [QuotaKinds -> Nat]]: committed re-increments of the revert
  nfailed,    \* [Workflows -> [QuotaKinds -> Nat]]: failed re-increment attempts
  enabled,    \* [Entities -> BOOLEAN]: the enabled flag of the stored row
  oper,       \* [Entities -> operating_status of the row]
  amp_health, \* [Amphorae -> "none", or the busy flag of its AmphoraHealth record]
  marked,     \* Seq(Entities): rows the last cascading walk updated, in order
  server_group_id, \* the server_group_id column of load balancer lb1
  vrrp_group  \* Seq([load_balancer_id, vrrp_auth_pass]): the rows of the VRRP group table

store == <<prov, cfg, amp, quota>>
engine == <<flow, pos, phase, results, arg, fault, postExec>>
quotaLog == <<rplan, attempts, reinc, nfailed>>
extra == <<enabled, oper, amp_health, marked, server_group_id, vrrp_group>>
vars == <<prov, cfg, amp, quota, flow, pos, phase, results, arg, fault, postExec,
          revRaised, revFail, rplan, attempts, reinc, nfailed,
          enabled, oper, amp_health, marked, server_group_id, vrrp_group>>

\* ------------------------------------------------------------ repositories
AmpNull == [role |-> NoneId, vrrp_priority |-> {}, load_balancer_id |-> NoneId,
            compute_id |-> NoneId, cert_busy |-> FALSE]

Range(seq) == {seq[i] : i \in 1..Len(seq)}

\* Rows the storage layer deletes together with row e (cascade delete).
CascadeOf(e) ==
  IF e \in Pools THEN {e} \cup Range(HealthMonitorOf(e)) \cup Range(MembersOf(e))
  ELSE IF e \in L7Policies THEN {e} \cup Range(L7RulesOf(e))
  ELSE IF e \in Listeners
    THEN {e} \cup Range(L7PoliciesOf(e))
             \cup UNION {Range(L7RulesOf(p)) : p \in Range(L7PoliciesOf(e))}
  ELSE IF e \in LoadBalancers THEN Entities \ Amphorae
  ELSE {e}

\* repo.update(session, id, provisioning_status=s): an UPDATE ... WHERE id = e;
\* it matches no row, and changes nothing, when the row does not exist.
RepoUpdate(p, e, s) == IF p[e] = ABSENT THEN p ELSE [p EXCEPT ![e] = s]

\* repo.delete(session, id=e) on an existing row.
RepoDelete(p, e) == [x \in DOMAIN p |-> IF x \in CascadeOf(e) THEN ABSENT ELSE p[x]]

\* repo.delete raises NoResultFound when no row has the id.
RepoDeleteRaises(p, e) == p[e] = ABSENT

\* The rows of a sequence of ids that exist, in order (a relationship attribute
\* of a loaded row lists the existing children only).
RECURSIVE Existing(_, _)
Existing(p, seq) ==
  IF seq = <<>> THEN <<>>
  ELSE IF p[Head(seq)] = ABSENT THEN Existing(p, Tail(seq))
  ELSE <<Head(seq)>> \o Existing(p, Tail(seq))

\* ------------------------------------------------------------------ engine
\* The columns of the row (or of the counters) a task is about.
TargetStateIn(p, c, am, q, e) ==
  IF e = "QUOTA" THEN [prov |-> "QUOTA", cfg |-> "QUOTA", amp |-> AmpNull, q |-> q]
  ELSE [prov |-> p[e], cfg |-> c[e],
        amp |-> IF e \in Amphorae THEN am[e] ELSE AmpNull, q |-> <<>>]

ArgNull == [sel |-> 1, lb |-> NoneId, ls |-> <<>>, created |-> NoneId, h |-> 0, m |-> 0,
            sub |-> FALSE]

TargetListener(w) == IF arg[w].sel = 1 THEN "l1" ELSE "l2"
TargetMember(w) == IF arg[w].sel = 1 THEN "m1" ELSE "m2"
TargetRule(w) == IF arg[w].sel = 1 THEN "r1" ELSE "r2"
TargetAmphora(w) == IF arg[w].sel = 1 THEN "a1" ELSE "a2"

\* The engine is about to call execute of task t in workflow w.
AtExec(w, t) ==
  /\ phase[w] = "exec"
  /\ pos[w] <= Len(flow[w])
  /\ flow[w][pos[w]] = t

\* The engine is about to call revert of task t in workflow w.
AtRevert(w, t) ==
  /\ phase[w] = "revert"
  /\ flow[w][pos[w]] = t

\* The result the engine hands to revert: what execute returned, or a Failure.
Result(w) == results[w][pos[w]]

\* execute returned normally; e is the row the task is about.
ExecOK(w, e, a) ==
  /\ results' = [results EXCEPT ![w] = Append(@, "ok")]
  /\ pos' = [pos EXCEPT ![w] = @ + 1]
  /\ postExec' = [postExec EXCEPT ![w] = [e |-> e, pre |-> TargetStateIn(prov, cfg, amp, quota, e),
                                          st |-> TargetStateIn(prov', cfg', amp', quota', e)]]
  /\ arg' = [arg EXCEPT ![w] = a]
  /\ UNCHANGED <<flow, phase, fault>>

\* execute raised exception exc: the engine starts reverting, this task first.
ExecRaise(w, exc) ==
  /\ results' = [results EXCEPT ![w] = Append(@, Failure)]
  /\ phase' = [phase EXCEPT ![w] = "revert"]
  /\ fault' = [fault EXCEPT ![w] = exc]
  /\ UNCHANGED <<flow, pos, arg, postExec>>

\* revert returned (raised = FALSE) or raised; failed tells whether a repository
\* call made by it failed.  After a revert that raised the engine either goes on
\* reverting or gives up.
RevertDone(w, raised, failed) ==
  /\ revRaised' = [revRaised EXCEPT ![w] = @ \/ raised]
  /\ revFail' = [revFail EXCEPT ![w] = @ \/ failed]
  /\ \E goOn \in (IF raised THEN BOOLEAN ELSE {TRUE}) :
       IF goOn /\ pos[w] > 1
         THEN /\ pos' = [pos EXCEPT ![w] = @ - 1]
              /\ UNCHANGED phase
         ELSE /\ phase' = [phase EXCEPT ![w] = "reverted"]
              /\ UNCHANGED pos
  /\ UNCHANGED <<flow, results, arg, fault, postExec>>

\* A later task of the workflow that is not a database task fails: the engine
\* reverts the tasks executed so far, last one first.
DownstreamFailure(w) ==
  /\ phase[w] = "exec"
  /\ pos[w] > 1
  /\ phase' = [phase EXCEPT ![w] = "revert"]
  /\ pos' = [pos EXCEPT ![w] = @ - 1]
  /\ UNCHANGED <<flow, results, arg, fault, postExec>>
  /\ UNCHANGED <<store, revRaised, revFail, quotaLog, extra>>

\* Every task of the workflow has executed and nothing failed.
FlowSucceeds(w) ==
  /\ phase[w] = "exec"
  /\ pos[w] = Len(flow[w]) + 1
  /\ phase' = [phase EXCEPT ![w] = "success"]
  /\ UNCHANGED <<flow, pos, results, arg, fault, postExec>>
  /\ UNCHANGED <<store, revRaised, revFail, quotaLog, extra>>

\* ------------------------------------------------------ shapes of the tasks
\* execute: self.<x>_repo.update(session, id, provisioning_status=s)
UpdateStatus_execute(w, t, e, s) ==
  /\ AtExec(w, t)
  /\ \E fail \in BOOLEAN :
       IF fail
         THEN UNCHANGED store /\ ExecRaise(w, "DBError")
         ELSE /\ prov' = RepoUpdate(prov, e, s)
              /\ UNCHANGED <<cfg, amp, quota>>
              /\ ExecOK(w, e, arg[w])
  /\ UNCHANGED <<revRaised, revFail, quotaLog, extra>>

\* A mark-ACTIVE execute that writes operating_status ONLINE whatever the
\* enabled flag is.
GetThenMarkActive_execute_online(w, t, e) ==
  /\ AtExec(w, t)
  /\ \E fail \in BOOLEAN :
       IF fail
         THEN UNCHANGED <<store, oper>> /\ ExecRaise(w, "DBError")
         ELSE IF prov[e] = ABSENT
           THEN UNCHANGED <<store, oper>> /\ ExecRaise(w, "AttributeError")
           ELSE /\ prov' = RepoUpdate(prov, e, "ACTIVE")
                /\ oper' = [oper EXCEPT ![e] = "ONLINE"]
                /\ UNCHANGED <<cfg, amp, quota>>
                /\ ExecOK(w, e, arg[w])
  /\ UNCHANGED <<revRaised, revFail, quotaLog, enabled, server_group_id, vrrp_group, amp_health, marked>>

\* execute: db_x = self.<x>_repo.get(session, id=...); op_status from db_x.enabled;
\* self.<x>_repo.update(session, id, provisioning_status=ACTIVE,
\* operating_status=op_status).  get returns None for a missing row and
\* db_x.enabled then raises AttributeError.
GetThenMarkActive_execute(w, t, e) ==
  /\ AtExec(w, t)
  /\ \E fail \in BOOLEAN :
       IF fail
         THEN UNCHANGED <<store, oper>> /\ ExecRaise(w, "DBError")
         ELSE IF prov[e] = ABSENT
           THEN UNCHANGED <<store, oper>> /\ ExecRaise(w, "AttributeError")
           ELSE /\ prov' = RepoUpdate(prov, e, "ACTIVE")
                /\ oper' = [oper EXCEPT ![e] = IF enabled[e] THEN "ONLINE" ELSE "OFFLINE"]
                /\ UNCHANGED <<cfg, amp, quota>>
                /\ ExecOK(w, e, arg[w])
  /\ UNCHANGED <<revRaised, revFail, quotaLog, enabled, server_group_id, vrrp_group, amp_health, marked>>

\* execute: self.<x>_repo.update(session, id, **update_dict)
UpdateDict_execute(w, t, e) ==
  /\ AtExec(w, t)
  /\ \E fail \in BOOLEAN :
       IF fail
         THEN UNCHANGED store /\ ExecRaise(w, "DBError")
         ELSE /\ cfg' = IF prov[e] = ABSENT THEN cfg ELSE [cfg EXCEPT ![e] = "new"]
              /\ UNCHANGED <<prov, amp, quota>>
              /\ ExecOK(w, e, arg[w])
  /\ UNCHANGED <<revRaised, revFail, quotaLog, extra>>

\* execute: self.<x>_repo.delete(session, id=...) with no exception handler
Delete_execute(w, t, e) ==
  /\ AtExec(w, t)
  /\ \E fail \in BOOLEAN :
       IF fail
         THEN UNCHANGED store /\ ExecRaise(w, "DBError")
         ELSE IF RepoDeleteRaises(prov, e)
           THEN UNCHANGED store /\ ExecRaise(w, "NoResultFound")
           ELSE /\ prov' = RepoDelete(prov, e)
                /\ UNCHANGED <<cfg, amp, quota>>
                /\ ExecOK(w, e, arg[w])
  /\ UNCHANGED <<revRaised, revFail, quotaLog, extra>>

\* revert: self.task_utils.mark_<x>_prov_status_error(id), which updates the
\* row to ERROR and logs, without raising, when the update fails.
TaskUtilsMarkError_revert(w, t, e) ==
  /\ AtRevert(w, t)
  /\ \E fail \in BOOLEAN :
       /\ prov' = IF fail THEN prov ELSE RepoUpdate(prov, e, "ERROR")
       /\ RevertDone(w, FALSE, fail)
  /\ UNCHANGED <<cfg, amp, quota, quotaLog, extra>>

\* revert: try: self.<x>_repo.update(session, id, provisioning_status=ERROR)
\*         except Exception: LOG.error(...)
TryMarkError_revert(w, t, e) ==
  /\ AtRevert(w, t)
  /\ \E fail \in BOOLEAN :
       /\ prov' = IF fail THEN prov ELSE RepoUpdate(prov, e, "ERROR")
       /\ RevertDone(w, FALSE, fail)
  /\ UNCHANGED <<cfg, amp, quota, quotaLog, extra>>

\* -------------------------------------------------------------- the tasks
\* The row of a kind that the inputs of workflow w name.
TargetOf(w, kind) ==
  CASE kind = "Pool" -> "pool1"
    [] kind = "Member" -> TargetMember(w)
    [] kind = "HealthMonitor" -> "hm1"
    [] kind = "L7Policy" -> "p1"
    [] kind = "L7Rule" -> TargetRule(w)
    [] kind = "Listener" -> TargetListener(w)
    [] kind = "LoadBalancer" -> "lb1"
    [] kind = "Amphora" -> TargetAmphora(w)

\* The tasks that write one provisioning_status to one row: execute is
\*   self.<x>_repo.update(session, id, provisioning_status=status)
\* (after a self.<x>_repo.get(session, id=...) where get is TRUE) and revert is
\*   self.task_utils.mark_<x>_prov_status_error(id)
StatusTasks == {
  \* lines 752-765, 767-779
  [task |-> "MarkAmphoraDeletedInDB", kind |-> "Amphora",
   status |-> "DELETED", get |-> FALSE],
  \* lines 788-801, 803-814
  [task |-> "MarkAmphoraPendingDeleteInDB", kind |-> "Amphora",
   status |-> "PENDING_DELETE", get |-> FALSE],
  \* lines 823-836, 838-849
  [task |-> "MarkAmphoraPendingUpdateInDB", kind |-> "Amphora",
   status |-> "PENDING_UPDATE", get |-> FALSE],
  \* lines 1177-1188, 1190-1201
  [task |-> "MarkLBDeletedInDB", kind |-> "LoadBalancer",
   status |-> "DELETED", get |-> FALSE],
  \* lines 1210-1222, 1224-1235
  [task |-> "MarkLBPendingDeleteInDB", kind |-> "LoadBalancer",
   status |-> "PENDING_DELETE", get |-> FALSE],
  \* lines 1301-1310, 1312-1321
  [task |-> "MarkListenerDeletedInDB", kind |-> "Listener",
   status |-> "DELETED", get |-> FALSE],
  \* lines 1817-1833, 1835-1846
  [task |-> "MarkHealthMonitorActiveInDB", kind |-> "HealthMonitor",
   status |-> "ACTIVE", get |-> TRUE],
  \* lines 1855-1867, 1869-1880
  [task |-> "MarkHealthMonitorPendingCreateInDB", kind |-> "HealthMonitor",
   status |-> "PENDING_CREATE", get |-> FALSE],
  \* lines 1889-1901, 1903-1914
  [task |-> "MarkHealthMonitorPendingDeleteInDB", kind |-> "HealthMonitor",
   status |-> "PENDING_DELETE", get |-> FALSE],
  \* lines 1923-1935, 1937-1948
  [task |-> "MarkHealthMonitorPendingUpdateInDB", kind |-> "HealthMonitor",
   status |-> "PENDING_UPDATE", get |-> FALSE],
  \* lines 1957-1973, 1975-1985
  [task |-> "MarkL7PolicyActiveInDB", kind |-> "L7Policy",
   status |-> "ACTIVE", get |-> TRUE],
  \* lines 1994-2005, 2007-2017
  [task |-> "MarkL7PolicyPendingCreateInDB", kind |-> "L7Policy",
   status |-> "PENDING_CREATE", get |-> FALSE],
  \* lines 2026-2037, 2039-2049
  [task |-> "MarkL7PolicyPendingDeleteInDB", kind |-> "L7Policy",
   status |-> "PENDING_DELETE", get |-> FALSE],
  \* lines 2058-2070, 2072-2082
  [task |-> "MarkL7PolicyPendingUpdateInDB", kind |-> "L7Policy",
   status |-> "PENDING_UPDATE", get |-> FALSE],
  \* lines 2091-2107, 2109-2119
  [task |-> "MarkL7RuleActiveInDB", kind |-> "L7Rule",
   status |-> "ACTIVE", get |-> TRUE],
  \* lines 2128-2139, 2141-2151
  [task |-> "MarkL7RulePendingCreateInDB", kind |-> "L7Rule",
   status |-> "PENDING_CREATE", get |-> FALSE],
  \* lines 2160-2171, 2173-2183
  [task |-> "MarkL7RulePendingDeleteInDB", kind |-> "L7Rule",
   status |-> "PENDING_DELETE", get |-> FALSE],
  \* lines 2192-2203, 2205-2215
  [task |-> "MarkL7RulePendingUpdateInDB", kind |-> "L7Rule",
   status |-> "PENDING_UPDATE", get |-> FALSE],
  \* lines 2224-2235, 2237-2247
  [task |-> "MarkMemberActiveInDB", kind |-> "Member",
   status |-> "ACTIVE", get |-> FALSE],
  \* lines 2256-2267, 2269-2279
  [task |-> "MarkMemberPendingCreateInDB", kind |-> "Member",
   status |-> "PENDING_CREATE", get |-> FALSE],
  \* lines 2288-2299, 2301-2311
  [task |-> "MarkMemberPendingDeleteInDB", kind |-> "Member",
   status |-> "PENDING_DELETE", get |-> FALSE],
  \* lines 2320-2331, 2333-2343
  [task |-> "MarkMemberPendingUpdateInDB", kind |-> "Member",
   status |-> "PENDING_UPDATE", get |-> FALSE],
  \* lines 2383-2394, 2396-2405
  [task |-> "MarkPoolPendingCreateInDB", kind |-> "Pool",
   status |-> "PENDING_CREATE", get |-> FALSE],
  \* lines 2445-2456, 2458-2467
  [task |-> "MarkPoolPendingUpdateInDB", kind |-> "Pool",
   status |-> "PENDING_UPDATE", get |-> FALSE]}

MarkStatusInDB_execute(w) ==
  \E r \in StatusTasks :
    IF r.get
      THEN GetThenMarkActive_execute(w, r.task, TargetOf(w, r.kind))
      ELSE UpdateStatus_execute(w, r.task, TargetOf(w, r.kind), r.status)

MarkStatusInDB_revert(w) ==
  \E r \in StatusTasks : TaskUtilsMarkError_revert(w, r.task, TargetOf(w, r.kind))

DeleteHealthMonitorInDB_execute(w) ==
  /\ AtExec(w, "DeleteHealthMonitorInDB")
  /\ \E fail \in BOOLEAN :
       IF fail
         THEN UNCHANGED store /\ ExecRaise(w, "DBError")
         ELSE /\ prov' = IF RepoDeleteRaises(prov, "hm1") THEN prov
                         ELSE RepoDelete(prov, "hm1")
              /\ UNCHANGED <<cfg, amp, quota>>
              /\ ExecOK(w, "hm1", arg[w])
  /\ UNCHANGED <<revRaised, revFail, quotaLog, extra>>

DeleteHealthMonitorInDB_revert(w) ==
  /\ AtRevert(w, "DeleteHealthMonitorInDB")
  /\ \E fail \in BOOLEAN :
       /\ prov' = IF fail THEN prov ELSE RepoUpdate(prov, "hm1", "ERROR")
       /\ RevertDone(w, fail, fail)
  /\ UNCHANGED <<cfg, amp, quota, quotaLog, extra>>

DeleteHealthMonitorInDBByPool_execute(w) ==
  /\ AtExec(w, "DeleteHealthMonitorInDBByPool")
  /\ \E fail \in BOOLEAN :
       IF fail
         THEN UNCHANGED store /\ ExecRaise(w, "DBError")
         ELSE IF prov["pool1"] = ABSENT \/ Existing(prov, HealthMonitorOf("pool1")) = <<>>
           THEN UNCHANGED store /\ ExecRaise(w, "AttributeError")
           ELSE /\ prov' = RepoDelete(prov, "hm1")
                /\ UNCHANGED <<cfg, amp, quota>>
                /\ ExecOK(w, "hm1", arg[w])
  /\ UNCHANGED <<revRaised, revFail, quotaLog, extra>>

DeleteHealthMonitorInDBByPool_revert(w) ==
  /\ AtRevert(w, "DeleteHealthMonitorInDBByPool")
  /\ \E fail \in BOOLEAN :
       LET noHM == prov["pool1"] = ABSENT \/ Existing(prov, HealthMonitorOf("pool1")) = <<>>
       IN /\ prov' = IF fail \/ noHM THEN prov ELSE RepoUpdate(prov, "hm1", "ERROR")
          /\ RevertDone(w, fail \/ noHM, fail)
  /\ UNCHANGED <<cfg, amp, quota, quotaLog, extra>>

DeleteMemberInDB_execute(w) == Delete_execute(w, "DeleteMemberInDB", TargetMember(w))

DeleteMemberInDB_revert(w) == TryMarkError_revert(w, "DeleteMemberInDB", TargetMember(w))

DeleteListenerInDB_execute(w) == Delete_execute(w, "DeleteListenerInDB", TargetListener(w))

DeleteListenerInDB_revert(w) ==
  /\ AtRevert(w, "DeleteListenerInDB")
  /\ RevertDone(w, FALSE, FALSE)
  /\ UNCHANGED <<store, quotaLog, extra>>

DeletePoolInDB_execute(w) == Delete_execute(w, "DeletePoolInDB", "pool1")

DeletePoolInDB_revert(w) == TryMarkError_revert(w, "DeletePoolInDB", "pool1")

DeleteL7PolicyInDB_execute(w) == Delete_execute(w, "DeleteL7PolicyInDB", "p1")

DeleteL7PolicyInDB_revert(w) == TryMarkError_revert(w, "DeleteL7PolicyInDB", "p1")

DeleteL7RuleInDB_execute(w) == Delete_execute(w, "DeleteL7RuleInDB", TargetRule(w))

DeleteL7RuleInDB_revert(w) == TryMarkError_revert(w, "DeleteL7RuleInDB", TargetRule(w))

\* ---- amphora tasks
\* amphora_repo.update(session, id, **columns) on the amphora row a.
AmpUpdate(am, p, a, cols) ==
  IF p[a] = ABSENT THEN am
  ELSE [am EXCEPT ![a] = [f \in DOMAIN am[a] |->
                            IF f \in DOMAIN cols THEN cols[f] ELSE am[a][f]]]

CreateAmphoraInDB_execute(w) ==
  /\ AtExec(w, "CreateAmphoraInDB")
  /\ \E fail \in BOOLEAN, a \in Amphorae, lb \in {NoneId, "lb1"} :
       /\ prov[a] = ABSENT
       /\ IF fail
            THEN UNCHANGED store /\ ExecRaise(w, "DBError")
            ELSE /\ prov' = [prov EXCEPT ![a] = "PENDING_CREATE"]
                 /\ amp' = [amp EXCEPT ![a] = [AmpNull EXCEPT !.load_balancer_id = lb,
                                                              !.cert_busy = FALSE]]
                 /\ UNCHANGED <<cfg, quota>>
                 /\ ExecOK(w, a, [arg[w] EXCEPT !.created = a])
  /\ UNCHANGED <<revRaised, revFail, quotaLog, extra>>

CreateAmphoraInDB_revert(w) ==
  /\ AtRevert(w, "CreateAmphoraInDB")
  /\ IF Result(w) = Failure
       THEN UNCHANGED store /\ RevertDone(w, FALSE, FALSE)
       ELSE \E fail \in BOOLEAN :
              LET a == arg[w].created
                  caught == fail \/ RepoDeleteRaises(prov, a)
              IN /\ prov' = IF caught THEN prov ELSE RepoDelete(prov, a)
                 /\ amp' = IF caught THEN amp ELSE [amp EXCEPT ![a] = AmpNull]
                 /\ UNCHANGED <<cfg, quota>>
                 /\ RevertDone(w, FALSE, fail)
  /\ UNCHANGED <<quotaLog, extra>>

\* AssociateFailoverAmphoraWithLBID.execute: repos.amphora.associate(session,
\* load_balancer_id=loadbalancer_id, amphora_id=amphora_id)
AssociateFailoverAmphoraWithLBID_execute(w) ==
  /\ AtExec(w, "AssociateFailoverAmphoraWithLBID")
  /\ \E fail \in BOOLEAN :
       IF fail
         THEN UNCHANGED store /\ ExecRaise(w, "DBError")
         ELSE /\ amp' = AmpUpdate(amp, prov, TargetAmphora(w), [load_balancer_id |-> "lb1"])
              /\ UNCHANGED <<prov, cfg, quota>>
              /\ ExecOK(w, TargetAmphora(w), arg[w])
  /\ UNCHANGED <<revRaised, revFail, quotaLog, extra>>

\* AssociateFailoverAmphoraWithLBID.revert: repos.amphora.update(session,
\* amphora_id, loadbalancer_id=None) inside try/except.  The amphora row has no
\* column loadbalancer_id: the update either raises, which is caught and
\* logged, or writes nothing.
AssociateFailoverAmphoraWithLBID_revert(w) ==
  /\ AtRevert(w, "AssociateFailoverAmphoraWithLBID")
  /\ \E fail \in BOOLEAN :
       /\ amp' = IF fail THEN amp
                 ELSE AmpUpdate(amp, prov, TargetAmphora(w), [loadbalancer_id |-> NoneId])
       /\ UNCHANGED <<prov, cfg, quota>>
       /\ RevertDone(w, FALSE, fail)
  /\ UNCHANGED <<quotaLog, extra>>

\* _MarkAmphoraRoleAndPriorityInDB._execute
MarkAmphoraRoleAndPriorityInDB_execute(w, t, amp_role, vrrp_priority) ==
  /\ AtExec(w, t)
  /\ \E fail \in BOOLEAN :
       IF fail
         THEN UNCHANGED store /\ ExecRaise(w, "DBError")
         ELSE /\ amp' = AmpUpdate(amp, prov, TargetAmphora(w),
                                  [role |-> amp_role, vrrp_priority |-> vrrp_priority])
              /\ UNCHANGED <<prov, cfg, quota>>
              /\ ExecOK(w, TargetAmphora(w), arg[w])
  /\ UNCHANGED <<revRaised, revFail, quotaLog, extra>>

\* A revert that clears the role and leaves vrrp_priority.
MarkAmphoraRoleAndPriorityInDB_revert_roleonly(w, t) ==
  /\ AtRevert(w, t)
  /\ IF Result(w) = Failure
       THEN UNCHANGED store /\ RevertDone(w, FALSE, FALSE)
       ELSE \E fail \in BOOLEAN :
              /\ amp' = IF fail THEN amp
                        ELSE AmpUpdate(amp, prov, TargetAmphora(w), [role |-> NoneId])
              /\ UNCHANGED <<prov, cfg, quota>>
              /\ RevertDone(w, FALSE, fail)
  /\ UNCHANGED <<quotaLog, extra>>

\* _MarkAmphoraRoleAndPriorityInDB._revert
MarkAmphoraRoleAndPriorityInDB_revert(w, t) ==
  /\ AtRevert(w, t)
  /\ IF Result(w) = Failure
       THEN UNCHANGED store /\ RevertDone(w, FALSE, FALSE)
       ELSE \E fail \in BOOLEAN :
              /\ amp' = IF fail THEN amp
                        ELSE AmpUpdate(amp, prov, TargetAmphora(w),
                                       [role |-> NoneId, vrrp_priority |-> {}])
              /\ UNCHANGED <<prov, cfg, quota>>
              /\ RevertDone(w, FALSE, fail)
  /\ UNCHANGED <<quotaLog, extra>>

MarkAmphoraMasterInDB_execute(w) ==
  MarkAmphoraRoleAndPriorityInDB_execute(w, "MarkAmphoraMasterInDB", "MASTER",
                                         {ROLE_MASTER_PRIORITY})

MarkAmphoraMasterInDB_revert(w) ==
  MarkAmphoraRoleAndPriorityInDB_revert(w, "MarkAmphoraMasterInDB")

MarkAmphoraBackupInDB_execute(w) ==
  MarkAmphoraRoleAndPriorityInDB_execute(w, "MarkAmphoraBackupInDB", "BACKUP",
                                         {ROLE_BACKUP_PRIORITY})

MarkAmphoraBackupInDB_revert(w) ==
  MarkAmphoraRoleAndPriorityInDB_revert(w, "MarkAmphoraBackupInDB")

\* A STANDALONE execute that passes the priority of a BACKUP.
MarkAmphoraStandAloneInDB_execute_priority(w) ==
  MarkAmphoraRoleAndPriorityInDB_execute(w, "MarkAmphoraStandAloneInDB", "STANDALONE",
                                         {ROLE_BACKUP_PRIORITY})

MarkAmphoraStandAloneInDB_execute(w) ==
  MarkAmphoraRoleAndPriorityInDB_execute(w, "MarkAmphoraStandAloneInDB", "STANDALONE", {})

MarkAmphoraStandAloneInDB_revert(w) ==
  MarkAmphoraRoleAndPriorityInDB_revert(w, "MarkAmphoraStandAloneInDB")

MarkAmphoraAllocatedInDB_execute(w) ==
  /\ AtExec(w, "MarkAmphoraAllocatedInDB")
  /\ \E fail \in BOOLEAN :
       IF fail
         THEN UNCHANGED store /\ ExecRaise(w, "DBError")
         ELSE /\ prov' = RepoUpdate(prov, TargetAmphora(w), "ALLOCATED")
              /\ amp' = AmpUpdate(amp, prov, TargetAmphora(w),
                                  [compute_id |-> "c1", load_balancer_id |-> "lb1"])
              /\ UNCHANGED <<cfg, quota>>
              /\ ExecOK(w, TargetAmphora(w), arg[w])
  /\ UNCHANGED <<revRaised, revFail, quotaLog, extra>>

\* MarkAmphoraAllocatedInDB.revert without the test of its result.
MarkAmphoraAllocatedInDB_revert_untested(w) ==
  /\ AtRevert(w, "MarkAmphoraAllocatedInDB")
  /\ \E fail \in BOOLEAN :
       /\ prov' = IF fail THEN prov ELSE RepoUpdate(prov, TargetAmphora(w), "ERROR")
       /\ UNCHANGED <<cfg, amp, quota>>
       /\ RevertDone(w, FALSE, fail)
  /\ UNCHANGED <<quotaLog, extra>>

MarkAmphoraAllocatedInDB_revert(w) ==
  /\ AtRevert(w, "MarkAmphoraAllocatedInDB")
  /\ IF Result(w) = Failure
       THEN UNCHANGED store /\ RevertDone(w, FALSE, FALSE)
       ELSE \E fail \in BOOLEAN :
              /\ prov' = IF fail THEN prov ELSE RepoUpdate(prov, TargetAmphora(w), "ERROR")
              /\ UNCHANGED <<cfg, amp, quota>>
              /\ RevertDone(w, FALSE, fail)
  /\ UNCHANGED <<quotaLog, extra>>

MarkAmphoraBootingInDB_execute(w) ==
  /\ AtExec(w, "MarkAmphoraBootingInDB")
  /\ \E fail \in BOOLEAN :
       IF fail
         THEN UNCHANGED store /\ ExecRaise(w, "DBError")
         ELSE /\ prov' = RepoUpdate(prov, TargetAmphora(w), "BOOTING")
              /\ amp' = AmpUpdate(amp, prov, TargetAmphora(w), [compute_id |-> "c1"])
              /\ UNCHANGED <<cfg, quota>>
              /\ ExecOK(w, TargetAmphora(w), arg[w])
  /\ UNCHANGED <<revRaised, revFail, quotaLog, extra>>

\* MarkAmphoraBootingInDB.revert without the test of its result.
MarkAmphoraBootingInDB_revert_untested(w) ==
  /\ AtRevert(w, "MarkAmphoraBootingInDB")
  /\ \E fail \in BOOLEAN :
       /\ prov' = IF fail THEN prov ELSE RepoUpdate(prov, TargetAmphora(w), "ERROR")
       /\ amp' = IF fail THEN amp
                 ELSE AmpUpdate(amp, prov, TargetAmphora(w), [compute_id |-> "c1"])
       /\ UNCHANGED <<cfg, quota>>
       /\ RevertDone(w, FALSE, fail)
  /\ UNCHANGED <<quotaLog, extra>>

MarkAmphoraBootingInDB_revert(w) ==
  /\ AtRevert(w, "MarkAmphoraBootingInDB")
  /\ IF Result(w) = Failure
       THEN UNCHANGED store /\ RevertDone(w, FALSE, FALSE)
       ELSE \E fail \in BOOLEAN :
              /\ prov' = IF fail THEN prov ELSE RepoUpdate(prov, TargetAmphora(w), "ERROR")
              /\ amp' = IF fail THEN amp
                        ELSE AmpUpdate(amp, prov, TargetAmphora(w), [compute_id |-> "c1"])
              /\ UNCHANGED <<cfg, quota>>
              /\ RevertDone(w, FALSE, fail)
  /\ UNCHANGED <<quotaLog, extra>>

\* ---- MarkLBActiveInDB and its cascading walk
RECURSIVE Concat(_)
Concat(seqs) == IF seqs = <<>> THEN <<>> ELSE Head(seqs) \o Concat(Tail(seqs))

\* _mark_pool_status: the pool, then its health monitor, then its members.
PoolWalk(p, pool) ==
  <<pool>> \o Existing(p, HealthMonitorOf(pool)) \o Existing(p, MembersOf(pool))

\* _mark_l7policy_status: the policy, then its rules, then its redirect pool.
L7PolicyWalk(p, l7policy) ==
  <<l7policy>> \o Existing(p, L7RulesOf(l7policy))
     \o Concat([i \in 1..Len(Existing(p, RedirectPoolOf(l7policy))) |->
                  PoolWalk(p, Existing(p, RedirectPoolOf(l7policy))[i])])

\* A walk that updates the listener after what hangs under it.
ListenerWalk_childrenfirst(p, listener) ==
  Concat([i \in 1..Len(Existing(p, L7PoliciesOf(listener))) |->
            L7PolicyWalk(p, Existing(p, L7PoliciesOf(listener))[i])])
     \o Concat([i \in 1..Len(Existing(p, DefaultPoolOf(listener))) |->
                  PoolWalk(p, Existing(p, DefaultPoolOf(listener))[i])])
     \o <<listener>>

\* _mark_listener_status: the listener, its policies, then its default pool.
ListenerWalk(p, listener) ==
  <<listener>>
     \o Concat([i \in 1..Len(Existing(p, L7PoliciesOf(listener))) |->
                  L7PolicyWalk(p, Existing(p, L7PoliciesOf(listener))[i])])
     \o Concat([i \in 1..Len(Existing(p, DefaultPoolOf(listener))) |->
                  PoolWalk(p, Existing(p, DefaultPoolOf(listener))[i])])

\* The updates of one walk, in order; the update of a row in F raises and ends
\* the walk, the updates made before it stay.  done lists the updated rows.
RECURSIVE MarkSeq(_, _, _, _)
MarkSeq(p, seq, status, F) ==
  IF seq = <<>> THEN [prov |-> p, raised |-> FALSE, done |-> <<>>]
  ELSE IF Head(seq) \in F THEN [prov |-> p, raised |-> TRUE, done |-> <<>>]
  ELSE LET rest == MarkSeq(RepoUpdate(p, Head(seq), status), Tail(seq), status, F)
       IN [rest EXCEPT !.done = <<Head(seq)>> \o @]

\* for listener in db_lb.listeners: self._mark_listener_status(listener, status)
\* guarded: each call is inside try/except (revert) or not (execute).
RECURSIVE MarkListeners(_, _, _, _, _, _)
MarkListeners(p, walks, ls, status, F, guarded) ==
  IF ls = <<>> THEN [prov |-> p, raised |-> FALSE, failed |-> FALSE, done |-> <<>>]
  ELSE LET one == MarkSeq(p, walks[Head(ls)], status, F)
       IN IF one.raised /\ ~guarded
            THEN [prov |-> one.prov, raised |-> TRUE, failed |-> TRUE, done |-> one.done]
            ELSE LET rest == MarkListeners(one.prov, walks, Tail(ls), status, F, guarded)
                 IN [prov |-> rest.prov, raised |-> rest.raised,
                     failed |-> one.raised \/ rest.failed,
                     done |-> one.done \o rest.done]

\* The sets of rows whose update fails during one call of the task.
FailSets == {{}} \cup {{e} : e \in Entities} \cup {Entities}

\* An execute that catches the failure of a listener's walk and goes on to
\* the load balancer.
MarkLBActiveInDB_execute_guarded(w) ==
  \E mark_subobjects \in BOOLEAN :
    /\ AtExec(w, IF mark_subobjects THEN "MarkLBActiveInDB+sub" ELSE "MarkLBActiveInDB")
    /\ \E getFails \in BOOLEAN, F \in FailSets :
         LET ls == Existing(prov, ListenersOfLB("lb1"))
             walks == [l \in Listeners |-> ListenerWalk(prov, l)]
             sub == IF mark_subobjects
                      THEN MarkListeners(prov, walks, ls, "ACTIVE", F, TRUE)
                      ELSE [prov |-> prov, raised |-> FALSE, failed |-> FALSE,
                            done |-> <<>>]
         IN IF mark_subobjects /\ getFails
              THEN UNCHANGED store /\ marked' = <<>> /\ ExecRaise(w, "DBError")
            ELSE IF mark_subobjects /\ prov["lb1"] = ABSENT
              THEN UNCHANGED store /\ marked' = <<>> /\ ExecRaise(w, "AttributeError")
            ELSE IF "lb1" \in F
              THEN /\ prov' = sub.prov
                   /\ marked' = sub.done
                   /\ UNCHANGED <<cfg, amp, quota>>
                   /\ ExecRaise(w, "DBError")
            ELSE /\ prov' = RepoUpdate(sub.prov, "lb1", "ACTIVE")
                 /\ marked' = sub.done \o <<"lb1">>
                 /\ UNCHANGED <<cfg, amp, quota>>
                 /\ ExecOK(w, "lb1", arg[w])
    /\ UNCHANGED <<revRaised, revFail, quotaLog, enabled, server_group_id, vrrp_group, oper, amp_health>>

MarkLBActiveInDB_execute(w) ==
  \E mark_subobjects \in BOOLEAN :
    /\ AtExec(w, IF mark_subobjects THEN "MarkLBActiveInDB+sub" ELSE "MarkLBActiveInDB")
    /\ \E getFails \in BOOLEAN, F \in FailSets :
         LET ls == Existing(prov, ListenersOfLB("lb1"))
             walks == [l \in Listeners |-> ListenerWalk(prov, l)]
             sub == IF mark_subobjects
                      THEN MarkListeners(prov, walks, ls, "ACTIVE", F, FALSE)
                      ELSE [prov |-> prov, raised |-> FALSE, failed |-> FALSE,
                            done |-> <<>>]
         IN IF mark_subobjects /\ getFails
              THEN UNCHANGED store /\ marked' = <<>> /\ ExecRaise(w, "DBError")
            ELSE IF mark_subobjects /\ prov["lb1"] = ABSENT
              THEN UNCHANGED store /\ marked' = <<>> /\ ExecRaise(w, "AttributeError")
            ELSE IF sub.raised \/ "lb1" \in F
              THEN /\ prov' = sub.prov
                   /\ marked' = sub.done
                   /\ UNCHANGED <<cfg, amp, quota>>
                   /\ ExecRaise(w, "DBError")
            ELSE /\ prov' = RepoUpdate(sub.prov, "lb1", "ACTIVE")
                 /\ marked' = sub.done \o <<"lb1">>
                 /\ UNCHANGED <<cfg, amp, quota>>
                 /\ ExecOK(w, "lb1", arg[w])
    /\ UNCHANGED <<revRaised, revFail, quotaLog, enabled, server_group_id, vrrp_group, oper, amp_health>>

\* A revert that walks the listeners whatever mark_subobjects says.
MarkLBActiveInDB_revert_always(w) ==
  \E mark_subobjects \in BOOLEAN :
    /\ AtRevert(w, IF mark_subobjects THEN "MarkLBActiveInDB+sub" ELSE "MarkLBActiveInDB")
    /\ \E getFails \in BOOLEAN, F \in FailSets :
         LET ls == Existing(prov, ListenersOfLB("lb1"))
             walks == [l \in Listeners |-> ListenerWalk(prov, l)]
             sub == MarkListeners(prov, walks, ls, "ERROR", F, TRUE)
         IN IF getFails \/ prov["lb1"] = ABSENT
              THEN UNCHANGED store /\ marked' = <<>> /\ RevertDone(w, TRUE, getFails)
              ELSE /\ prov' = IF "lb1" \in F THEN sub.prov
                              ELSE RepoUpdate(sub.prov, "lb1", "ERROR")
                   /\ marked' = IF "lb1" \in F THEN sub.done ELSE sub.done \o <<"lb1">>
                   /\ UNCHANGED <<cfg, amp, quota>>
                   /\ RevertDone(w, FALSE, sub.failed \/ "lb1" \in F)
    /\ UNCHANGED <<quotaLog, enabled, server_group_id, vrrp_group, oper, amp_health>>

\* A revert with one try around the whole loop over the listeners: the first
\* failing walk ends the loop.
MarkLBActiveInDB_revert_onetry(w) ==
  \E mark_subobjects \in BOOLEAN :
    /\ AtRevert(w, IF mark_subobjects THEN "MarkLBActiveInDB+sub" ELSE "MarkLBActiveInDB")
    /\ \E getFails \in BOOLEAN, F \in FailSets :
         LET ls == Existing(prov, ListenersOfLB("lb1"))
             walks == [l \in Listeners |-> ListenerWalk(prov, l)]
             sub == IF mark_subobjects
                      THEN MarkListeners(prov, walks, ls, "ERROR", F, FALSE)
                      ELSE [prov |-> prov, raised |-> FALSE, failed |-> FALSE,
                            done |-> <<>>]
         IN IF mark_subobjects /\ (getFails \/ prov["lb1"] = ABSENT)
              THEN UNCHANGED store /\ marked' = <<>> /\ RevertDone(w, TRUE, getFails)
              ELSE /\ prov' = IF "lb1" \in F THEN sub.prov
                              ELSE RepoUpdate(sub.prov, "lb1", "ERROR")
                   /\ marked' = IF "lb1" \in F THEN sub.done ELSE sub.done \o <<"lb1">>
                   /\ UNCHANGED <<cfg, amp, quota>>
                   /\ RevertDone(w, FALSE, sub.failed \/ "lb1" \in F)
    /\ UNCHANGED <<quotaLog, enabled, server_group_id, vrrp_group, oper, amp_health>>

MarkLBActiveInDB_revert(w) ==
  \E mark_subobjects \in BOOLEAN :
    /\ AtRevert(w, IF mark_subobjects THEN "MarkLBActiveInDB+sub" ELSE "MarkLBActiveInDB")
    /\ \E getFails \in BOOLEAN, F \in FailSets :
         LET ls == Existing(prov, ListenersOfLB("lb1"))
             walks == [l \in Listeners |-> ListenerWalk(prov, l)]
             sub == IF mark_subobjects
                      THEN MarkListeners(prov, walks, ls, "ERROR", F, TRUE)
                      ELSE [prov |-> prov, raised |-> FALSE, failed |-> FALSE,
                            done |-> <<>>]
         IN IF mark_subobjects /\ (getFails \/ prov["lb1"] = ABSENT)
              THEN UNCHANGED store /\ marked' = <<>> /\ RevertDone(w, TRUE, getFails)
              ELSE /\ prov' = IF "lb1" \in F THEN sub.prov
                              ELSE RepoUpdate(sub.prov, "lb1", "ERROR")
                   /\ marked' = IF "lb1" \in F THEN sub.done ELSE sub.done \o <<"lb1">>
                   /\ UNCHANGED <<cfg, amp, quota>>
                   /\ RevertDone(w, FALSE, sub.failed \/ "lb1" \in F)
    /\ UNCHANGED <<quotaLog, enabled, server_group_id, vrrp_group, oper, amp_health>>

\* ---- load balancer and listener status tasks
\* An execute that marks every given listener ACTIVE, those in ERROR too.
MarkLBAndListenersActiveInDB_execute_unconditional(w) ==
  /\ AtExec(w, "MarkLBAndListenersActiveInDB")
  /\ \E F \in FailSets :
       LET listeners == arg[w].ls
           lb_id == IF arg[w].lb # NoneId THEN arg[w].lb
                    ELSE IF listeners # <<>> THEN LBOfListener(listeners[1])
                    ELSE NoneId
           lbFails == lb_id # NoneId /\ lb_id \in F
           afterLB == IF lb_id \in LoadBalancers /\ ~lbFails
                        THEN RepoUpdate(prov, lb_id, "ACTIVE") ELSE prov
           failing == {i \in 1..Len(listeners) : listeners[i] \in F}
           reached == {listeners[i] : i \in {j \in 1..Len(listeners) :
                                               \A k \in failing : j < k}}
       IN /\ prov' = IF lbFails THEN prov
                     ELSE [e \in Entities |->
                             IF e \in reached /\ afterLB[e] # ABSENT
                               THEN "ACTIVE" ELSE afterLB[e]]
          /\ UNCHANGED <<cfg, amp, quota>>
          /\ IF lbFails \/ failing # {}
               THEN ExecRaise(w, "DBError")
               ELSE ExecOK(w, "lb1", arg[w])
  /\ UNCHANGED <<revRaised, revFail, quotaLog, extra>>

\* MarkLBAndListenersActiveInDB.execute(loadbalancer_id, listeners), with
\* loadbalancer_id = arg.lb and listeners = arg.ls.  The first call on a row of
\* F raises; the calls made before it stay.
\* listener_repo.prov_status_active_if_not_error sets ACTIVE unless the row is
\* in ERROR.
MarkLBAndListenersActiveInDB_execute(w) ==
  /\ AtExec(w, "MarkLBAndListenersActiveInDB")
  /\ \E F \in FailSets :
       LET listeners == arg[w].ls
           lb_id == IF arg[w].lb # NoneId THEN arg[w].lb
                    ELSE IF listeners # <<>> THEN LBOfListener(listeners[1])
                    ELSE NoneId
           lbFails == lb_id # NoneId /\ lb_id \in F
           afterLB == IF lb_id \in LoadBalancers /\ ~lbFails
                        THEN RepoUpdate(prov, lb_id, "ACTIVE") ELSE prov
           failing == {i \in 1..Len(listeners) : listeners[i] \in F}
           reached == {listeners[i] : i \in {j \in 1..Len(listeners) :
                                               \A k \in failing : j < k}}
       IN /\ prov' = IF lbFails THEN prov
                     ELSE [e \in Entities |->
                             IF e \in reached /\ afterLB[e] \notin {ABSENT, "ERROR"}
                               THEN "ACTIVE" ELSE afterLB[e]]
          /\ UNCHANGED <<cfg, amp, quota>>
          /\ IF lbFails \/ failing # {}
               THEN ExecRaise(w, "DBError")
               ELSE ExecOK(w, "lb1", arg[w])
  /\ UNCHANGED <<revRaised, revFail, quotaLog, extra>>

\* A revert that takes the load balancer from loadbalancer_id only.
MarkLBAndListenersActiveInDB_revert_idonly(w) ==
  /\ AtRevert(w, "MarkLBAndListenersActiveInDB")
  /\ \E F \in FailSets :
       LET listeners == arg[w].ls
           lb_id == arg[w].lb
           targets == (IF lb_id # NoneId THEN {lb_id} ELSE {}) \cup Range(listeners)
       IN /\ prov' = [e \in Entities |->
                        IF e \in targets \ F /\ prov[e] # ABSENT THEN "ERROR" ELSE prov[e]]
          /\ UNCHANGED <<cfg, amp, quota>>
          /\ RevertDone(w, FALSE, targets \cap F # {})
  /\ UNCHANGED <<quotaLog, extra>>

\* MarkLBAndListenersActiveInDB.revert: task_utils marks the load balancer and
\* each listener ERROR and swallows the failure of an update (rows of F).
MarkLBAndListenersActiveInDB_revert(w) ==
  /\ AtRevert(w, "MarkLBAndListenersActiveInDB")
  /\ \E F \in FailSets :
       LET listeners == arg[w].ls
           lb_id == IF arg[w].lb # NoneId THEN arg[w].lb
                    ELSE IF listeners # <<>> THEN LBOfListener(listeners[1])
                    ELSE NoneId
           targets == (IF lb_id # NoneId THEN {lb_id} ELSE {}) \cup Range(listeners)
       IN /\ prov' = [e \in Entities |->
                        IF e \in targets \ F /\ prov[e] # ABSENT THEN "ERROR" ELSE prov[e]]
          /\ UNCHANGED <<cfg, amp, quota>>
          /\ RevertDone(w, FALSE, targets \cap F # {})
  /\ UNCHANGED <<quotaLog, extra>>

MarkListenerPendingDeleteInDB_execute(w) ==
  UpdateStatus_execute(w, "MarkListenerPendingDeleteInDB", TargetListener(w), "PENDING_DELETE")

MarkListenerPendingDeleteInDB_revert(w) ==
  TaskUtilsMarkError_revert(w, "MarkListenerPendingDeleteInDB", TargetListener(w))

\* ---- Update*InDB
UpdateHealthMonInDB_execute(w) == UpdateDict_execute(w, "UpdateHealthMonInDB", "hm1")

UpdateHealthMonInDB_revert(w) == TryMarkError_revert(w, "UpdateHealthMonInDB", "hm1")

UpdateListenerInDB_execute(w) == UpdateDict_execute(w, "UpdateListenerInDB", TargetListener(w))

UpdateListenerInDB_revert(w) ==
  TaskUtilsMarkError_revert(w, "UpdateListenerInDB", TargetListener(w))

UpdateMemberInDB_execute(w) == UpdateDict_execute(w, "UpdateMemberInDB", TargetMember(w))

UpdateMemberInDB_revert(w) == TryMarkError_revert(w, "UpdateMemberInDB", TargetMember(w))

UpdatePoolInDB_execute(w) == UpdateDict_execute(w, "UpdatePoolInDB", "pool1")

UpdatePoolInDB_revert(w) == TryMarkError_revert(w, "UpdatePoolInDB", "pool1")

UpdateL7PolicyInDB_execute(w) == UpdateDict_execute(w, "UpdateL7PolicyInDB", "p1")

UpdateL7PolicyInDB_revert(w) == TryMarkError_revert(w, "UpdateL7PolicyInDB", "p1")

UpdateL7RuleInDB_execute(w) == UpdateDict_execute(w, "UpdateL7RuleInDB", TargetRule(w))

\* The revert updates the row of the rule's L7 policy (l7policy_repo,
\* l7rule[L7POLICY_ID]), not the row of the rule.
UpdateL7RuleInDB_revert(w) ==
  TryMarkError_revert(w, "UpdateL7RuleInDB", L7PolicyOfRule(TargetRule(w)))

\* ---- Mark<X>{Active,PendingCreate,PendingDelete,PendingUpdate}InDB
MarkPoolActiveInDB_execute(w) == UpdateStatus_execute(w, "MarkPoolActiveInDB", "pool1", "ACTIVE")

MarkPoolActiveInDB_revert(w) == TaskUtilsMarkError_revert(w, "MarkPoolActiveInDB", "pool1")

MarkPoolPendingDeleteInDB_execute(w) ==
  UpdateStatus_execute(w, "MarkPoolPendingDeleteInDB", "pool1", "PENDING_DELETE")

\* MarkPoolPendingDeleteInDB.revert that leaves the pool as it is.
MarkPoolPendingDeleteInDB_revert_noop(w) ==
  /\ AtRevert(w, "MarkPoolPendingDeleteInDB")
  /\ RevertDone(w, FALSE, FALSE)
  /\ UNCHANGED <<store, quotaLog, extra>>

MarkPoolPendingDeleteInDB_revert(w) == TaskUtilsMarkError_revert(w, "MarkPoolPendingDeleteInDB", "pool1")

\* ------------------------------------------------------------ quota ledger
ZeroCount == [k \in QuotaKinds |-> 0]

Call(kind, qty) == [kind |-> kind, qty |-> qty]

\* The calls execute makes between opening the locking session and the commit.
\* A call of kind "get" is the lookup of the L7 policy, which changes nothing.
\* The i-th call raises when i = failAt (database error); decrement_quota
\* raises when the decrement would take the counter below zero.  pend is the
\* uncommitted change of the session.
RECURSIVE SessionCalls(_, _, _, _, _)
SessionCalls(q, pend, calls, i, failAt) ==
  IF calls = <<>> THEN [pend |-> pend, raised |-> FALSE, exc |-> "none"]
  ELSE LET c == Head(calls)
       IN IF i = failAt THEN [pend |-> pend, raised |-> TRUE, exc |-> "DBError"]
          ELSE IF c.kind = "get"
            THEN SessionCalls(q, pend, Tail(calls), i + 1, failAt)
          ELSE IF q[c.kind] + pend[c.kind] - c.qty < 0
            THEN [pend |-> pend, raised |-> TRUE, exc |-> "QuotaException"]
          ELSE SessionCalls(q, [pend EXCEPT ![c.kind] = @ - c.qty],
                            Tail(calls), i + 1, failAt)

\* lock_session.commit(): the changes of the session become visible.
SessionCommit(q, pend) == [k \in QuotaKinds |-> q[k] + pend[k]]

\* lock_session.rollback(): the changes of the session are discarded.
SessionRollback(q, pend) == q

\* The body of execute with a commit in place of the rollback.
DecrementQuota_execute_body_norollback(q, calls, failAt) ==
  LET r == SessionCalls(q, ZeroCount, calls, 1, failAt)
  IN IF r.raised
       THEN [quota |-> SessionCommit(q, r.pend), raised |-> TRUE, exc |-> r.exc]
     ELSE IF failAt = Len(calls) + 1
       THEN [quota |-> SessionCommit(q, r.pend), raised |-> TRUE, exc |-> "DBError"]
     ELSE [quota |-> SessionCommit(q, r.pend), raised |-> FALSE, exc |-> "none"]

\* The body of a Decrement*Quota.execute:
\*   lock_session = get_session(autocommit=False)
\*   try: <calls>; lock_session.commit()
\*   except Exception: with save_and_reraise_exception(): lock_session.rollback()
\* failAt = Len(calls) + 1 makes the commit raise.
DecrementQuota_execute_body(q, calls, failAt) ==
  LET r == SessionCalls(q, ZeroCount, calls, 1, failAt)
  IN IF r.raised
       THEN [quota |-> SessionRollback(q, r.pend), raised |-> TRUE, exc |-> r.exc]
     ELSE IF failAt = Len(calls) + 1
       THEN [quota |-> SessionRollback(q, r.pend), raised |-> TRUE, exc |-> "DBError"]
     ELSE [quota |-> SessionCommit(q, r.pend), raised |-> FALSE, exc |-> "none"]

\* An execute that rolls back and returns instead of re-raising.
QuotaExecute_swallow(w, t, calls) ==
  /\ AtExec(w, t)
  /\ \E failAt \in 0..(Len(calls) + 1) :
       LET r == DecrementQuota_execute_body(quota, calls, failAt)
       IN /\ quota' = r.quota
          /\ UNCHANGED <<prov, cfg, amp>>
          /\ ExecOK(w, "QUOTA", arg[w])
  /\ UNCHANGED <<revRaised, revFail, quotaLog, extra>>

QuotaExecute(w, t, calls) ==
  /\ AtExec(w, t)
  /\ \E failAt \in 0..(Len(calls) + 1) :
       LET r == DecrementQuota_execute_body(quota, calls, failAt)
       IN /\ quota' = r.quota
          /\ UNCHANGED <<prov, cfg, amp>>
          /\ IF r.raised THEN ExecRaise(w, r.exc) ELSE ExecOK(w, "QUOTA", arg[w])
  /\ UNCHANGED <<revRaised, revFail, quotaLog, extra>>

\* repos.check_quota_met(session, lock_session, kind, project_id): the admission
\* check; it counts the resource in when the project is below its limit.
CheckQuotaMet(q, kind) ==
  IF q[kind] + 1 <= QuotaLimit THEN [q EXCEPT ![kind] = @ + 1] ELSE q

\* A re-increment attempt that leaves the change of a failed session in place.
QuotaRevertAttempt_norollback(w, plan, fail, lookupFailed) ==
  LET kind == Head(plan)
      newq == CheckQuotaMet(quota, kind)
  IN /\ quota' = newq
     /\ attempts' = [attempts EXCEPT ![w][kind] = @ + 1]
     /\ reinc' = [reinc EXCEPT ![w][kind] =
                   @ + (IF ~fail /\ quota[kind] + 1 <= QuotaLimit THEN 1 ELSE 0)]
     /\ nfailed' = [nfailed EXCEPT ![w][kind] = @ + (IF fail THEN 1 ELSE 0)]
     /\ UNCHANGED <<prov, cfg, amp, extra>>
     /\ IF Tail(plan) = <<>>
          THEN /\ rplan' = [rplan EXCEPT ![w] = <<>>]
               /\ RevertDone(w, FALSE, fail \/ lookupFailed)
          ELSE /\ rplan' = [rplan EXCEPT ![w] = Tail(plan)]
               /\ revFail' = [revFail EXCEPT ![w] = @ \/ fail \/ lookupFailed]
               /\ UNCHANGED <<engine, revRaised>>

\* A re-increment attempt whose failure ends the revert by raising.
QuotaRevertAttempt_escalate(w, plan, fail, lookupFailed) ==
  LET kind == Head(plan)
      newq == IF fail THEN SessionRollback(quota, ZeroCount) ELSE CheckQuotaMet(quota, kind)
  IN /\ quota' = newq
     /\ attempts' = [attempts EXCEPT ![w][kind] = @ + 1]
     /\ reinc' = [reinc EXCEPT ![w][kind] =
                   @ + (IF ~fail /\ quota[kind] + 1 <= QuotaLimit THEN 1 ELSE 0)]
     /\ nfailed' = [nfailed EXCEPT ![w][kind] = @ + (IF fail THEN 1 ELSE 0)]
     /\ UNCHANGED <<prov, cfg, amp, extra>>
     /\ IF fail \/ Tail(plan) = <<>>
          THEN /\ rplan' = [rplan EXCEPT ![w] = <<>>]
               /\ RevertDone(w, fail, fail \/ lookupFailed)
          ELSE /\ rplan' = [rplan EXCEPT ![w] = Tail(plan)]
               /\ revFail' = [revFail EXCEPT ![w] = @ \/ fail \/ lookupFailed]
               /\ UNCHANGED <<engine, revRaised>>

\* One re-increment attempt of a Decrement*Quota.revert:
\*   lock_session = get_session(autocommit=False)
\*   try: check_quota_met(...); lock_session.commit()
\*   except Exception: lock_session.rollback()
\* plan lists the kinds the revert has still to attempt, this one first; the
\* revert returns after the last one.
QuotaRevertAttempt(w, plan, fail, lookupFailed) ==
  LET kind == Head(plan)
      newq == IF fail THEN SessionRollback(quota, ZeroCount) ELSE CheckQuotaMet(quota, kind)
  IN /\ quota' = newq
     /\ attempts' = [attempts EXCEPT ![w][kind] = @ + 1]
     /\ reinc' = [reinc EXCEPT ![w][kind] =
                   @ + (IF ~fail /\ quota[kind] + 1 <= QuotaLimit THEN 1 ELSE 0)]
     /\ nfailed' = [nfailed EXCEPT ![w][kind] = @ + (IF fail THEN 1 ELSE 0)]
     /\ UNCHANGED <<prov, cfg, amp, extra>>
     /\ IF Tail(plan) = <<>>
          THEN /\ rplan' = [rplan EXCEPT ![w] = <<>>]
               /\ RevertDone(w, FALSE, fail \/ lookupFailed)
          ELSE /\ rplan' = [rplan EXCEPT ![w] = Tail(plan)]
               /\ revFail' = [revFail EXCEPT ![w] = @ \/ fail \/ lookupFailed]
               /\ UNCHANGED <<engine, revRaised>>

\* revert of the tasks that decrement one counter: nothing when the result is
\* a Failure, else one re-increment attempt.
QuotaRevert(w, t, kind) ==
  /\ AtRevert(w, t)
  /\ IF Result(w) = Failure
       THEN UNCHANGED <<store, quotaLog, extra>> /\ RevertDone(w, FALSE, FALSE)
       ELSE \E fail \in BOOLEAN : QuotaRevertAttempt(w, <<kind>>, fail, FALSE)

DecrementHealthMonitorQuota_execute(w) ==
  QuotaExecute(w, "DecrementHealthMonitorQuota", <<Call("HealthMonitor", 1)>>)

DecrementHealthMonitorQuota_revert(w) ==
  QuotaRevert(w, "DecrementHealthMonitorQuota", "HealthMonitor")

DecrementListenerQuota_execute(w) ==
  QuotaExecute(w, "DecrementListenerQuota", <<Call("Listener", 1)>>)

DecrementListenerQuota_revert(w) == QuotaRevert(w, "DecrementListenerQuota", "Listener")

DecrementLoadBalancerQuota_execute(w) ==
  QuotaExecute(w, "DecrementLoadBalancerQuota", <<Call("LoadBalancer", 1)>>)

DecrementLoadBalancerQuota_revert(w) ==
  QuotaRevert(w, "DecrementLoadBalancerQuota", "LoadBalancer")

DecrementMemberQuota_execute(w) ==
  QuotaExecute(w, "DecrementMemberQuota", <<Call("Member", 1)>>)

DecrementMemberQuota_revert(w) == QuotaRevert(w, "DecrementMemberQuota", "Member")

DecrementL7ruleQuota_execute(w) ==
  QuotaExecute(w, "DecrementL7ruleQuota", <<Call("L7Rule", 1)>>)

DecrementL7ruleQuota_revert(w) == QuotaRevert(w, "DecrementL7ruleQuota", "L7Rule")

\* The decrements of the pool task with the members counted as one.
DecrementPoolQuota_calls_unit(h, m) ==
  <<Call("Pool", 1)>>
    \o (IF h > 0 THEN <<Call("HealthMonitor", 1)>> ELSE <<>>)
    \o (IF m > 0 THEN <<Call("Member", 1)>> ELSE <<>>)

\* The decrements of DecrementPoolQuota.execute for pool_child_count
\* {'HM': h, 'member': m}.
DecrementPoolQuota_calls(h, m) ==
  <<Call("Pool", 1)>>
    \o (IF h > 0 THEN <<Call("HealthMonitor", 1)>> ELSE <<>>)
    \o (IF m > 0 THEN <<Call("Member", m)>> ELSE <<>>)

DecrementPoolQuota_execute(w) ==
  QuotaExecute(w, "DecrementPoolQuota", DecrementPoolQuota_calls(arg[w].h, arg[w].m))

\* The re-increments of the pool task with one bulk attempt for the members.
DecrementPoolQuota_plan_bulk(h, m) ==
  <<"Pool">> \o (IF h > 0 THEN <<"HealthMonitor">> ELSE <<>>)
             \o (IF m > 0 THEN <<"Member">> ELSE <<>>)

\* The re-increment attempts of DecrementPoolQuota.revert, in order.
DecrementPoolQuota_plan(h, m) ==
  <<"Pool">> \o (IF h > 0 THEN <<"HealthMonitor">> ELSE <<>>) \o [i \in 1..m |-> "Member"]

\* A DecrementPoolQuota.revert that does not give the health monitor back.
DecrementPoolQuota_revert_nohm(w) ==
  /\ AtRevert(w, "DecrementPoolQuota")
  /\ IF Result(w) = Failure
       THEN UNCHANGED <<store, quotaLog, extra>> /\ RevertDone(w, FALSE, FALSE)
       ELSE \E fail \in BOOLEAN :
              QuotaRevertAttempt(w, IF rplan[w] = <<>>
                                      THEN DecrementPoolQuota_plan(0, arg[w].m)
                                      ELSE rplan[w],
                                 fail, FALSE)

DecrementPoolQuota_revert(w) ==
  /\ AtRevert(w, "DecrementPoolQuota")
  /\ IF Result(w) = Failure
       THEN UNCHANGED <<store, quotaLog, extra>> /\ RevertDone(w, FALSE, FALSE)
       ELSE \E fail \in BOOLEAN :
              QuotaRevertAttempt(w, IF rplan[w] = <<>>
                                      THEN DecrementPoolQuota_plan(arg[w].h, arg[w].m)
                                      ELSE rplan[w],
                                 fail, FALSE)

\* len(db_l7policy.l7rules) of the stored policy; 0 when get returns None.
RuleCount(p, l7policy) ==
  IF p[l7policy] = ABSENT THEN 0 ELSE Len(Existing(p, L7RulesOf(l7policy)))

DecrementL7policyQuota_calls(p) ==
  <<Call("L7Policy", 1), Call("get", 0)>>
    \o (IF RuleCount(p, "p1") > 0 THEN <<Call("L7Rule", RuleCount(p, "p1"))>> ELSE <<>>)

\* An execute that commits the L7Policy decrement in a session of its own
\* before it looks the policy up and decrements the L7Rule counter.
DecrementL7policyQuota_execute_split(w) ==
  /\ AtExec(w, "DecrementL7policyQuota")
  /\ \E f1 \in 0..2, f2 \in 0..3 :
       LET first == DecrementQuota_execute_body(quota, <<Call("L7Policy", 1)>>, f1)
           rest == DecrementQuota_execute_body(first.quota,
                                               Tail(DecrementL7policyQuota_calls(prov)), f2)
           r == IF first.raised THEN first ELSE rest
       IN /\ quota' = r.quota
          /\ UNCHANGED <<prov, cfg, amp>>
          /\ IF r.raised THEN ExecRaise(w, r.exc) ELSE ExecOK(w, "QUOTA", arg[w])
  /\ UNCHANGED <<revRaised, revFail, quotaLog, extra>>

DecrementL7policyQuota_execute(w) ==
  QuotaExecute(w, "DecrementL7policyQuota", DecrementL7policyQuota_calls(prov))

\* The first firing makes the L7Policy attempt and looks the policy up; a
\* lookup that raises ends the revert (outer except: pass).
DecrementL7policyQuota_revert(w) ==
  /\ AtRevert(w, "DecrementL7policyQuota")
  /\ IF Result(w) = Failure
       THEN UNCHANGED <<store, quotaLog, extra>> /\ RevertDone(w, FALSE, FALSE)
       ELSE \E fail \in BOOLEAN, getFails \in BOOLEAN :
              IF rplan[w] = <<>>
                THEN QuotaRevertAttempt(w,
                       <<"L7Policy">> \o (IF getFails THEN <<>>
                                          ELSE [i \in 1..RuleCount(prov, "p1") |-> "L7Rule"]),
                       fail, getFails)
                ELSE /\ ~getFails
                     /\ QuotaRevertAttempt(w, rplan[w], fail, FALSE)

\* A count that reports the members and no health monitor.
CountPoolChildrenForQuota_execute_nohm(w) ==
  /\ AtExec(w, "CountPoolChildrenForQuota")
  /\ UNCHANGED <<store, revRaised, revFail, quotaLog, extra>>
  /\ \E fail \in BOOLEAN :
       IF fail
         THEN ExecRaise(w, "DBError")
         ELSE ExecOK(w, "pool1",
                     [arg[w] EXCEPT !.h = 0,
                                    !.m = Len(Existing(prov, MembersOf("pool1")))])

\* CountPoolChildrenForQuota.execute: pool_repo.get_children_count(session, pool_id)
CountPoolChildrenForQuota_execute(w) ==
  /\ AtExec(w, "CountPoolChildrenForQuota")
  /\ UNCHANGED <<store, revRaised, revFail, quotaLog, extra>>
  /\ \E fail \in BOOLEAN :
       IF fail
         THEN ExecRaise(w, "DBError")
         ELSE ExecOK(w, "pool1",
                     [arg[w] EXCEPT !.h = Len(Existing(prov, HealthMonitorOf("pool1"))),
                                    !.m = Len(Existing(prov, MembersOf("pool1")))])

\* CountPoolChildrenForQuota has no revert of its own: Task.revert does nothing.
CountPoolChildrenForQuota_revert(w) ==
  /\ AtRevert(w, "CountPoolChildrenForQuota")
  /\ RevertDone(w, FALSE, FALSE)
  /\ UNCHANGED <<store, quotaLog, extra>>

\* ---- health coordination tasks
\* _delete_from_amp_health without the except clause.
delete_from_amp_health_nocatch(h, a) ==
  IF h[a] = "none" THEN [h |-> h, exc |-> "NoResultFound"]
  ELSE [h |-> [h EXCEPT ![a] = "none"], exc |-> "none"]

\* _delete_from_amp_health: amp_health_repo.delete raises NoResultFound when the
\* amphora has no record; the exception is caught and logged.
delete_from_amp_health(h, a) ==
  IF h[a] = "none" THEN [h |-> h, exc |-> "none"]
  ELSE [h |-> [h EXCEPT ![a] = "none"], exc |-> "none"]

\* _mark_amp_health_busy that writes a busy record when there is none.
mark_amp_health_busy_upsert(h, a) == [h |-> [h EXCEPT ![a] = "busy"], exc |-> "none"]

\* _mark_amp_health_busy: amp_health_repo.update(busy=True) changes the record
\* of the amphora if there is one; NoResultFound is caught and logged.
mark_amp_health_busy(h, a) ==
  IF h[a] = "none" THEN [h |-> h, exc |-> "none"]
  ELSE [h |-> [h EXCEPT ![a] = "busy"], exc |-> "none"]

\* db_lb.amphorae
AmphoraeOfLB(am, p, lb) ==
  SelectSeq(<<"a1", "a2">>, LAMBDA a : p[a] # ABSENT /\ am[a].load_balancer_id = lb)

\* for amphora in ...: self._delete_from_amp_health(amphora.id), or
\* self._mark_amp_health_busy(amphora.id).  The repository call for an amphora
\* in F fails with a database error, which nothing catches.
RECURSIVE HealthLoop(_, _, _, _)
HealthLoop(h, seq, busy, F) ==
  IF seq = <<>> THEN [h |-> h, exc |-> "none"]
  ELSE IF Head(seq) \in F THEN [h |-> h, exc |-> "DBError"]
  ELSE LET one == IF busy THEN mark_amp_health_busy(h, Head(seq))
                          ELSE delete_from_amp_health(h, Head(seq))
       IN IF one.exc # "none" THEN one ELSE HealthLoop(one.h, Tail(seq), busy, F)

HealthTasks == {
  \* lines 1741-1754
  [task |-> "DisableAmphoraHealthMonitoring", busy |-> FALSE, lb |-> FALSE],
  \* lines 1757-1773
  [task |-> "DisableLBAmphoraeHealthMonitoring", busy |-> FALSE, lb |-> TRUE],
  \* lines 1776-1789
  [task |-> "MarkAmphoraHealthBusy", busy |-> TRUE, lb |-> FALSE],
  \* lines 1792-1808
  [task |-> "MarkLBAmphoraeHealthBusy", busy |-> TRUE, lb |-> TRUE]}

\* An execute whose loop over db_lb.amphorae ends after the first amphora.
HealthTask_execute_first(w) ==
  \E r \in HealthTasks :
    /\ AtExec(w, r.task)
    /\ UNCHANGED <<store, revRaised, revFail, quotaLog, enabled, server_group_id, vrrp_group, oper, marked>>
    /\ \E getFails \in BOOLEAN, F \in SUBSET Amphorae :
         LET all == IF r.lb THEN AmphoraeOfLB(amp, prov, "lb1") ELSE <<TargetAmphora(w)>>
             seq == IF all = <<>> THEN <<>> ELSE <<Head(all)>>
             out == HealthLoop(amp_health, seq, r.busy, F)
         IN IF r.lb /\ getFails
              THEN UNCHANGED amp_health /\ ExecRaise(w, "DBError")
            ELSE IF r.lb /\ prov["lb1"] = ABSENT
              THEN UNCHANGED amp_health /\ ExecRaise(w, "AttributeError")
            ELSE /\ amp_health' = out.h
                 /\ IF out.exc # "none"
                      THEN ExecRaise(w, out.exc)
                      ELSE ExecOK(w, IF r.lb THEN "lb1" ELSE TargetAmphora(w), arg[w])

HealthTask_execute(w) ==
  \E r \in HealthTasks :
    /\ AtExec(w, r.task)
    /\ UNCHANGED <<store, revRaised, revFail, quotaLog, enabled, server_group_id, vrrp_group, oper, marked>>
    /\ \E getFails \in BOOLEAN, F \in SUBSET Amphorae :
         LET seq == IF r.lb THEN AmphoraeOfLB(amp, prov, "lb1") ELSE <<TargetAmphora(w)>>
             out == HealthLoop(amp_health, seq, r.busy, F)
         IN IF r.lb /\ getFails
              THEN UNCHANGED amp_health /\ ExecRaise(w, "DBError")
            ELSE IF r.lb /\ prov["lb1"] = ABSENT
              THEN UNCHANGED amp_health /\ ExecRaise(w, "AttributeError")
            ELSE /\ amp_health' = out.h
                 /\ IF out.exc # "none"
                      THEN ExecRaise(w, out.exc)
                      ELSE ExecOK(w, IF r.lb THEN "lb1" ELSE TargetAmphora(w), arg[w])

\* A health task whose revert puts back a record that is not busy.
HealthTask_revert_restore(w) ==
  \E r \in HealthTasks :
    /\ AtRevert(w, r.task)
    /\ amp_health' = IF Result(w) = Failure THEN amp_health
                      ELSE [amp_health EXCEPT ![TargetAmphora(w)] = "idle"]
    /\ RevertDone(w, FALSE, FALSE)
    /\ UNCHANGED <<store, quotaLog, enabled, server_group_id, vrrp_group, oper, marked>>

\* The four tasks define no revert: the engine calls the revert they inherit,
\* which does nothing.
HealthTask_revert(w) ==
  \E r \in HealthTasks :
    /\ AtRevert(w, r.task)
    /\ RevertDone(w, FALSE, FALSE)
    /\ UNCHANGED <<store, quotaLog, extra>>

\* ---- UpdateLBServerGroupInDB
\* execute: loadbalancer_repo.update(session, id=loadbalancer_id,
\* server_group_id=server_group_id), with no exception handler.
UpdateLBServerGroupInDB_execute(w) ==
  /\ AtExec(w, "UpdateLBServerGroupInDB")
  /\ UNCHANGED <<store, revRaised, revFail, quotaLog, enabled, oper, amp_health, marked,
                 vrrp_group>>
  /\ \E fail \in BOOLEAN, group \in {"sg0", "sg1"} :
       IF fail
         THEN UNCHANGED server_group_id /\ ExecRaise(w, "DBError")
         ELSE /\ server_group_id' = IF prov["lb1"] = ABSENT THEN server_group_id ELSE group
              /\ ExecOK(w, "lb1", arg[w])

\* A revert that leaves the server group of the load balancer as it is.
UpdateLBServerGroupInDB_revert_keep(w) ==
  /\ AtRevert(w, "UpdateLBServerGroupInDB")
  /\ RevertDone(w, FALSE, FALSE)
  /\ UNCHANGED <<store, quotaLog, extra>>

\* revert: try: loadbalancer_repo.update(session, id=loadbalancer_id,
\* server_group_id=None) except Exception: LOG.error(...)
UpdateLBServerGroupInDB_revert(w) ==
  /\ AtRevert(w, "UpdateLBServerGroupInDB")
  /\ \E fail \in BOOLEAN :
       /\ server_group_id' = IF fail \/ prov["lb1"] = ABSENT THEN server_group_id ELSE NoneId
       /\ RevertDone(w, FALSE, fail)
  /\ UNCHANGED <<store, quotaLog, enabled, oper, amp_health, marked, vrrp_group>>

\* ---- CreateVRRPGroupForLB
\* An execute without the handler of DBDuplicateEntry.
CreateVRRPGroupForLB_execute_nocatch(w) ==
  /\ AtExec(w, "CreateVRRPGroupForLB")
  /\ UNCHANGED <<store, revRaised, revFail, quotaLog, enabled, oper, amp_health, marked,
                 server_group_id>>
  /\ \E fail \in BOOLEAN, vrrp_auth_pass \in {"pass1", "pass2"} :
       IF fail
         THEN UNCHANGED vrrp_group /\ ExecRaise(w, "DBError")
       ELSE IF \E i \in 1..Len(vrrp_group) : vrrp_group[i].load_balancer_id = "lb1"
         THEN UNCHANGED vrrp_group /\ ExecRaise(w, "DBDuplicateEntry")
       ELSE /\ vrrp_group' = Append(vrrp_group, [load_balancer_id |-> "lb1",
                                                  vrrp_auth_pass |-> vrrp_auth_pass])
            /\ ExecOK(w, "lb1", arg[w])

\* execute: try: repos.vrrpgroup.create(session, load_balancer_id=..., ...,
\* vrrp_auth_pass=<random>, ...) except DBDuplicateEntry: LOG.debug(...)
\* The table holds one group per load balancer: create raises DBDuplicateEntry
\* when the load balancer has one.  Any other failure leaves execute.
CreateVRRPGroupForLB_execute(w) ==
  /\ AtExec(w, "CreateVRRPGroupForLB")
  /\ UNCHANGED <<store, revRaised, revFail, quotaLog, enabled, oper, amp_health, marked,
                 server_group_id>>
  /\ \E fail \in BOOLEAN, vrrp_auth_pass \in {"pass1", "pass2"} :
       IF fail
         THEN UNCHANGED vrrp_group /\ ExecRaise(w, "DBError")
       ELSE IF \E i \in 1..Len(vrrp_group) : vrrp_group[i].load_balancer_id = "lb1"
         THEN UNCHANGED vrrp_group /\ ExecOK(w, "lb1", arg[w])
       ELSE /\ vrrp_group' = Append(vrrp_group, [load_balancer_id |-> "lb1",
                                                  vrrp_auth_pass |-> vrrp_auth_pass])
            /\ ExecOK(w, "lb1", arg[w])

\* The task defines no revert: the engine calls the one it inherits, which
\* does nothing.
CreateVRRPGroupForLB_revert(w) ==
  /\ AtRevert(w, "CreateVRRPGroupForLB")
  /\ RevertDone(w, FALSE, FALSE)
  /\ UNCHANGED <<store, quotaLog, extra>>

\* ------------------------------------------------------------ specifications
QuotaTasks == {
  "DecrementHealthMonitorQuota", "DecrementListenerQuota",
  "DecrementLoadBalancerQuota", "DecrementMemberQuota", "DecrementL7ruleQuota",
  "DecrementPoolQuota", "DecrementL7policyQuota"}

\* The tasks whose revert tests its result for a Failure.
ResultTestingTasks == {"CreateAmphoraInDB", "MarkAmphoraMasterInDB", "MarkAmphoraBackupInDB",
                       "MarkAmphoraStandAloneInDB", "MarkAmphoraAllocatedInDB",
                       "MarkAmphoraBootingInDB"} \cup QuotaTasks

TaskNames == {
  "DeleteHealthMonitorInDB", "DeleteHealthMonitorInDBByPool", "DeleteMemberInDB",
  "DeleteListenerInDB", "DeletePoolInDB", "DeleteL7PolicyInDB", "DeleteL7RuleInDB",
  "CreateAmphoraInDB", "MarkAmphoraMasterInDB", "MarkAmphoraBackupInDB",
  "MarkAmphoraStandAloneInDB", "MarkAmphoraAllocatedInDB", "MarkAmphoraBootingInDB",
  "MarkAmphoraDeletedInDB", "MarkAmphoraPendingDeleteInDB",
  "MarkAmphoraPendingUpdateInDB", "MarkLBActiveInDB", "MarkLBActiveInDB+sub",
  "MarkLBDeletedInDB", "MarkLBPendingDeleteInDB", "MarkListenerDeletedInDB",
  "MarkListenerPendingDeleteInDB", "UpdateHealthMonInDB", "UpdateListenerInDB",
  "UpdateMemberInDB", "UpdatePoolInDB", "UpdateL7PolicyInDB", "UpdateL7RuleInDB",
  "MarkHealthMonitorActiveInDB", "MarkHealthMonitorPendingCreateInDB",
  "MarkHealthMonitorPendingDeleteInDB", "MarkHealthMonitorPendingUpdateInDB",
  "MarkL7PolicyActiveInDB", "MarkL7PolicyPendingCreateInDB",
  "MarkL7PolicyPendingDeleteInDB", "MarkL7PolicyPendingUpdateInDB",
  "MarkL7RuleActiveInDB", "MarkL7RulePendingCreateInDB", "MarkL7RulePendingDeleteInDB",
  "MarkL7RulePendingUpdateInDB", "MarkMemberActiveInDB", "MarkMemberPendingCreateInDB",
  "MarkMemberPendingDeleteInDB", "MarkMemberPendingUpdateInDB", "MarkPoolActiveInDB",
  "MarkPoolPendingCreateInDB", "MarkPoolPendingDeleteInDB",
  "MarkPoolPendingUpdateInDB", "DecrementHealthMonitorQuota", "DecrementListenerQuota",
  "DecrementLoadBalancerQuota", "DecrementMemberQuota", "DecrementL7ruleQuota",
  "DecrementPoolQuota", "DecrementL7policyQuota",
  "CountPoolChildrenForQuota", "AssociateFailoverAmphoraWithLBID",
  "MarkLBAndListenersActiveInDB"}

\* The tasks whose input names one of several rows of its kind.
SelTasks == {
  "DeleteMemberInDB", "DeleteListenerInDB", "DeleteL7RuleInDB",
  "MarkAmphoraMasterInDB", "MarkAmphoraBackupInDB", "MarkAmphoraStandAloneInDB",
  "MarkAmphoraAllocatedInDB", "MarkAmphoraBootingInDB", "MarkAmphoraDeletedInDB",
  "MarkAmphoraPendingDeleteInDB", "MarkAmphoraPendingUpdateInDB",
  "MarkListenerDeletedInDB", "MarkListenerPendingDeleteInDB", "UpdateListenerInDB",
  "UpdateMemberInDB", "UpdateL7RuleInDB", "MarkL7RuleActiveInDB",
  "MarkL7RulePendingCreateInDB", "MarkL7RulePendingDeleteInDB",
  "MarkL7RulePendingUpdateInDB", "MarkMemberActiveInDB", "MarkMemberPendingCreateInDB",
  "MarkMemberPendingDeleteInDB", "MarkMemberPendingUpdateInDB",
  "AssociateFailoverAmphoraWithLBID"}

\* Stores the program can be in: every row that exists has status s, the rows
\* of A do not exist (A is closed under the cascade), every counter is b.
StoreOf(s, A, b) ==
  /\ prov = [e \in Entities |-> IF e \in A THEN ABSENT ELSE s]
  /\ cfg = [e \in Entities |-> "old"]
  /\ amp = [a \in Amphorae |-> AmpNull]
  /\ quota = [k \in QuotaKinds |-> b]

InitEngine ==
  /\ flow = [w \in Workflows |-> <<>>]
  /\ pos = [w \in Workflows |-> 1]
  /\ phase = [w \in Workflows |-> "idle"]
  /\ results = [w \in Workflows |-> <<>>]
  /\ arg = [w \in Workflows |-> ArgNull]
  /\ fault = [w \in Workflows |-> "none"]
  /\ postExec = [w \in Workflows |-> [e |-> "none", pre |-> <<>>, st |-> <<>>]]
  /\ revRaised = [w \in Workflows |-> FALSE]
  /\ revFail = [w \in Workflows |-> FALSE]
  /\ rplan = [w \in Workflows |-> <<>>]
  /\ attempts = [w \in Workflows |-> ZeroCount]
  /\ reinc = [w \in Workflows |-> ZeroCount]
  /\ nfailed = [w \in Workflows |-> ZeroCount]
  /\ marked = <<>>

\* The enabled flags, the operating statuses and the AmphoraHealth records.
InitExtra(en, op, h) ==
  /\ enabled = [e \in Entities |-> en]
  /\ oper = [e \in Entities |-> op]
  /\ amp_health = h
  /\ server_group_id = NoneId
  /\ vrrp_group = <<>>

\* The engine starts workflow w with the tasks fl and the inputs a.
Start(w, fl, a) ==
  /\ phase[w] = "idle"
  /\ flow' = [flow EXCEPT ![w] = fl]
  /\ phase' = [phase EXCEPT ![w] = "exec"]
  /\ arg' = [arg EXCEPT ![w] = a]
  /\ UNCHANGED <<pos, results, fault, postExec>>
  /\ UNCHANGED <<store, revRaised, revFail, quotaLog, extra>>

\* ---- one task under test: execute, then revert with either result
AbsentSets == {{}} \cup {CascadeOf(e) : e \in Entities} \cup {Amphorae}

Init ==
  /\ \E s \in ProvStatuses, A \in AbsentSets, b \in {0, 1, MaxInUse} : StoreOf(s, A, b)
  /\ InitExtra(TRUE, "OFFLINE", [a \in Amphorae |-> "none"])
  /\ InitEngine

StartTask(w) ==
  \E t \in TaskNames :
    \E sel \in (IF t \in SelTasks THEN 1..2 ELSE {1}),
       h \in (IF t = "DecrementPoolQuota" THEN 0..1 ELSE {0}),
       m \in (IF t = "DecrementPoolQuota" THEN 0..MaxMembers ELSE {0}),
       lb \in (IF t = "MarkLBAndListenersActiveInDB" THEN {NoneId, "lb1", "lb0"}
               ELSE {NoneId}),
       ls \in (IF t = "MarkLBAndListenersActiveInDB"
                 THEN {<<>>, <<"l1">>, <<"l2">>, <<"l1", "l2">>}
               ELSE {<<>>}) :
      Start(w, <<t>>, [ArgNull EXCEPT !.sel = sel, !.h = h, !.m = m, !.lb = lb, !.ls = ls])

Next ==
  \E w \in {"w1"} :
       \/ StartTask(w)
       \/ DownstreamFailure(w)
       \/ FlowSucceeds(w)
       \/ AssociateFailoverAmphoraWithLBID_execute(w)
       \/ AssociateFailoverAmphoraWithLBID_revert(w)
       \/ MarkLBAndListenersActiveInDB_execute(w)
       \/ MarkLBAndListenersActiveInDB_revert(w)
       \/ MarkStatusInDB_execute(w)
       \/ MarkStatusInDB_revert(w)
       \/ DeleteHealthMonitorInDB_execute(w)
       \/ DeleteHealthMonitorInDB_revert(w)
       \/ DeleteHealthMonitorInDBByPool_execute(w)
       \/ DeleteHealthMonitorInDBByPool_revert(w)
       \/ DeleteMemberInDB_execute(w)
       \/ DeleteMemberInDB_revert(w)
       \/ DeleteListenerInDB_execute(w)
       \/ DeleteListenerInDB_revert(w)
       \/ DeletePoolInDB_execute(w)
       \/ DeletePoolInDB_revert(w)
       \/ DeleteL7PolicyInDB_execute(w)
       \/ DeleteL7PolicyInDB_revert(w)
       \/ DeleteL7RuleInDB_execute(w)
       \/ DeleteL7RuleInDB_revert(w)
       \/ CreateAmphoraInDB_execute(w)
       \/ CreateAmphoraInDB_revert(w)
       \/ MarkAmphoraMasterInDB_execute(w)
       \/ MarkAmphoraMasterInDB_revert(w)
       \/ MarkAmphoraBackupInDB_execute(w)
       \/ MarkAmphoraBackupInDB_revert(w)
       \/ MarkAmphoraStandAloneInDB_execute(w)
       \/ MarkAmphoraStandAloneInDB_revert(w)
       \/ MarkAmphoraAllocatedInDB_execute(w)
       \/ MarkAmphoraAllocatedInDB_revert(w)
       \/ MarkAmphoraBootingInDB_execute(w)
       \/ MarkAmphoraBootingInDB_revert(w)
       \/ MarkLBActiveInDB_execute(w)
       \/ MarkLBActiveInDB_revert(w)
       \/ MarkListenerPendingDeleteInDB_execute(w)
       \/ MarkListenerPendingDeleteInDB_revert(w)
       \/ UpdateHealthMonInDB_execute(w)
       \/ UpdateHealthMonInDB_revert(w)
       \/ UpdateListenerInDB_execute(w)
       \/ UpdateListenerInDB_revert(w)
       \/ UpdateMemberInDB_execute(w)
       \/ UpdateMemberInDB_revert(w)
       \/ UpdatePoolInDB_execute(w)
       \/ UpdatePoolInDB_revert(w)
       \/ UpdateL7PolicyInDB_execute(w)
       \/ UpdateL7PolicyInDB_revert(w)
       \/ UpdateL7RuleInDB_execute(w)
       \/ UpdateL7RuleInDB_revert(w)
       \/ MarkPoolActiveInDB_execute(w)
       \/ MarkPoolActiveInDB_revert(w)
       \/ MarkPoolPendingDeleteInDB_execute(w)
       \/ MarkPoolPendingDeleteInDB_revert(w)
       \/ DecrementHealthMonitorQuota_execute(w)
       \/ DecrementHealthMonitorQuota_revert(w)
       \/ DecrementListenerQuota_execute(w)
       \/ DecrementListenerQuota_revert(w)
       \/ DecrementLoadBalancerQuota_execute(w)
       \/ DecrementLoadBalancerQuota_revert(w)
       \/ DecrementMemberQuota_execute(w)
       \/ DecrementMemberQuota_revert(w)
       \/ DecrementL7ruleQuota_execute(w)
       \/ DecrementL7ruleQuota_revert(w)
       \/ DecrementPoolQuota_execute(w)
       \/ DecrementPoolQuota_revert(w)
       \/ DecrementL7policyQuota_execute(w)
       \/ DecrementL7policyQuota_revert(w)
       \/ CountPoolChildrenForQuota_execute(w)
       \/ CountPoolChildrenForQuota_revert(w)

Spec == Init /\ [][Next]_vars

\* ---- whole workflows: a mark-PENDING task, forward tasks, a terminal mark
FlowCatalog == {
  [kind |-> "Pool",
   tasks |-> <<"MarkPoolPendingCreateInDB", "MarkPoolActiveInDB">>],
  [kind |-> "Pool",
   tasks |-> <<"MarkPoolPendingUpdateInDB", "UpdatePoolInDB", "MarkPoolActiveInDB">>],
  [kind |-> "Pool",
   tasks |-> <<"MarkPoolPendingDeleteInDB", "DeletePoolInDB">>],
  [kind |-> "Member",
   tasks |-> <<"MarkMemberPendingCreateInDB", "MarkMemberActiveInDB">>],
  [kind |-> "Member",
   tasks |-> <<"MarkMemberPendingUpdateInDB", "UpdateMemberInDB", "MarkMemberActiveInDB">>],
  [kind |-> "Member",
   tasks |-> <<"MarkMemberPendingDeleteInDB", "DeleteMemberInDB">>],
  [kind |-> "HealthMonitor",
   tasks |-> <<"MarkHealthMonitorPendingCreateInDB", "MarkHealthMonitorActiveInDB">>],
  [kind |-> "HealthMonitor",
   tasks |-> <<"MarkHealthMonitorPendingUpdateInDB", "UpdateHealthMonInDB", "MarkHealthMonitorActiveInDB">>],
  [kind |-> "HealthMonitor",
   tasks |-> <<"MarkHealthMonitorPendingDeleteInDB", "DeleteHealthMonitorInDB">>],
  [kind |-> "HealthMonitor",
   tasks |-> <<"MarkHealthMonitorPendingDeleteInDB", "DeleteHealthMonitorInDBByPool">>],
  [kind |-> "L7Policy",
   tasks |-> <<"MarkL7PolicyPendingCreateInDB", "MarkL7PolicyActiveInDB">>],
  [kind |-> "L7Policy",
   tasks |-> <<"MarkL7PolicyPendingUpdateInDB", "UpdateL7PolicyInDB", "MarkL7PolicyActiveInDB">>],
  [kind |-> "L7Policy",
   tasks |-> <<"MarkL7PolicyPendingDeleteInDB", "DeleteL7PolicyInDB">>],
  [kind |-> "L7Rule",
   tasks |-> <<"MarkL7RulePendingCreateInDB", "MarkL7RuleActiveInDB">>],
  [kind |-> "L7Rule",
   tasks |-> <<"MarkL7RulePendingUpdateInDB", "UpdateL7RuleInDB", "MarkL7RuleActiveInDB">>],
  [kind |-> "L7Rule",
   tasks |-> <<"MarkL7RulePendingDeleteInDB", "DeleteL7RuleInDB">>],
  [kind |-> "Listener",
   tasks |-> <<"MarkListenerPendingDeleteInDB", "DeleteListenerInDB">>],
  [kind |-> "Listener",
   tasks |-> <<"MarkListenerPendingDeleteInDB", "MarkListenerDeletedInDB">>],
  [kind |-> "LoadBalancer",
   tasks |-> <<"MarkLBPendingDeleteInDB", "MarkLBDeletedInDB">>],
  [kind |-> "Amphora",
   tasks |-> <<"MarkAmphoraPendingDeleteInDB", "MarkAmphoraDeletedInDB">>],
  [kind |-> "Amphora",
   tasks |-> <<"MarkAmphoraPendingUpdateInDB", "MarkAmphoraAllocatedInDB">>],
  [kind |-> "Pool",
   tasks |-> <<"MarkPoolPendingDeleteInDB", "CountPoolChildrenForQuota",
               "DeletePoolInDB", "DecrementPoolQuota">>],
  [kind |-> "L7Policy",
   tasks |-> <<"MarkL7PolicyPendingDeleteInDB", "DecrementL7policyQuota",
               "DeleteL7PolicyInDB">>]}

InitFlow ==
  /\ \E s \in ProvStatuses, A \in AbsentSets, b \in {1, MaxInUse} : StoreOf(s, A, b)
  /\ InitExtra(TRUE, "OFFLINE", [a \in Amphorae |-> "none"])
  /\ InitEngine

StartFlow(w) ==
  \E c \in FlowCatalog :
    \E sel \in (IF c.kind \in {"Member", "L7Rule", "Listener", "Amphora"} THEN 1..2 ELSE {1}) :
      Start(w, c.tasks, [ArgNull EXCEPT !.sel = sel])

NextFlow ==
  \E w \in {"w1"} :
       \/ StartFlow(w)
       \/ DownstreamFailure(w)
       \/ FlowSucceeds(w)
       \/ MarkStatusInDB_execute(w)
       \/ MarkStatusInDB_revert(w)
       \/ MarkPoolActiveInDB_execute(w)
       \/ MarkPoolActiveInDB_revert(w)
       \/ UpdatePoolInDB_execute(w)
       \/ UpdatePoolInDB_revert(w)
       \/ MarkPoolPendingDeleteInDB_execute(w)
       \/ MarkPoolPendingDeleteInDB_revert(w)
       \/ DeletePoolInDB_execute(w)
       \/ DeletePoolInDB_revert(w)
       \/ UpdateMemberInDB_execute(w)
       \/ UpdateMemberInDB_revert(w)
       \/ DeleteMemberInDB_execute(w)
       \/ DeleteMemberInDB_revert(w)
       \/ UpdateHealthMonInDB_execute(w)
       \/ UpdateHealthMonInDB_revert(w)
       \/ DeleteHealthMonitorInDB_execute(w)
       \/ DeleteHealthMonitorInDB_revert(w)
       \/ DeleteHealthMonitorInDBByPool_execute(w)
       \/ DeleteHealthMonitorInDBByPool_revert(w)
       \/ UpdateL7PolicyInDB_execute(w)
       \/ UpdateL7PolicyInDB_revert(w)
       \/ DeleteL7PolicyInDB_execute(w)
       \/ DeleteL7PolicyInDB_revert(w)
       \/ UpdateL7RuleInDB_execute(w)
       \/ UpdateL7RuleInDB_revert(w)
       \/ DeleteL7RuleInDB_execute(w)
       \/ DeleteL7RuleInDB_revert(w)
       \/ MarkListenerPendingDeleteInDB_execute(w)
       \/ MarkListenerPendingDeleteInDB_revert(w)
       \/ DeleteListenerInDB_execute(w)
       \/ DeleteListenerInDB_revert(w)
       \/ MarkAmphoraAllocatedInDB_execute(w)
       \/ MarkAmphoraAllocatedInDB_revert(w)
       \/ CountPoolChildrenForQuota_execute(w)
       \/ CountPoolChildrenForQuota_revert(w)
       \/ DecrementPoolQuota_execute(w)
       \/ DecrementPoolQuota_revert(w)
       \/ DecrementL7policyQuota_execute(w)
       \/ DecrementL7policyQuota_revert(w)

SpecFlow == InitFlow /\ [][NextFlow]_vars

\* ---- the quota ledger of one project under concurrent workflows
InitQuota ==
  /\ \E A \in {{}, {"r1"}, CascadeOf("p1")}, b \in 0..MaxInUse : StoreOf("ACTIVE", A, b)
  /\ InitExtra(TRUE, "OFFLINE", [a \in Amphorae |-> "none"])
  /\ InitEngine

StartQuota(w) ==
  \E t \in QuotaTasks :
    \E h \in (IF t = "DecrementPoolQuota" THEN 0..1 ELSE {0}),
       m \in (IF t = "DecrementPoolQuota" THEN 0..MaxMembers ELSE {0}) :
      Start(w, <<t>>, [ArgNull EXCEPT !.h = h, !.m = m])

NextQuota ==
  \E w \in Workflows :
       \/ StartQuota(w)
       \/ DownstreamFailure(w)
       \/ FlowSucceeds(w)
       \/ DecrementHealthMonitorQuota_execute(w)
       \/ DecrementHealthMonitorQuota_revert(w)
       \/ DecrementListenerQuota_execute(w)
       \/ DecrementListenerQuota_revert(w)
       \/ DecrementLoadBalancerQuota_execute(w)
       \/ DecrementLoadBalancerQuota_revert(w)
       \/ DecrementMemberQuota_execute(w)
       \/ DecrementMemberQuota_revert(w)
       \/ DecrementL7ruleQuota_execute(w)
       \/ DecrementL7ruleQuota_revert(w)
       \/ DecrementPoolQuota_execute(w)
       \/ DecrementPoolQuota_revert(w)
       \/ DecrementL7policyQuota_execute(w)
       \/ DecrementL7policyQuota_revert(w)

SpecQuota == InitQuota /\ [][NextQuota]_vars

\* ---- the mark-ACTIVE tasks on rows that are enabled or disabled
MarkActiveTasks == {"MarkHealthMonitorActiveInDB", "MarkL7PolicyActiveInDB",
                    "MarkL7RuleActiveInDB", "MarkMemberActiveInDB",
                    "MarkPoolActiveInDB"}

InitStatus ==
  /\ \E s \in ProvStatuses, A \in AbsentSets : StoreOf(s, A, 1)
  /\ \E en \in BOOLEAN, op \in {"ONLINE", "OFFLINE"} : InitExtra(en, op, [a \in Amphorae |-> "none"])
  /\ InitEngine

StartStatus(w) ==
  \E t \in MarkActiveTasks, sel \in 1..2 :
    Start(w, <<t>>, [ArgNull EXCEPT !.sel = sel])

NextStatus ==
  \E w \in {"w1"} :
       \/ StartStatus(w)
       \/ DownstreamFailure(w)
       \/ FlowSucceeds(w)
       \/ MarkStatusInDB_execute(w)
       \/ MarkStatusInDB_revert(w)
       \/ MarkPoolActiveInDB_execute(w)
       \/ MarkPoolActiveInDB_revert(w)

SpecStatus == InitStatus /\ [][NextStatus]_vars

\* ---- the role tasks of two workflows on the same amphorae
RoleTasks == {"MarkAmphoraMasterInDB", "MarkAmphoraBackupInDB",
              "MarkAmphoraStandAloneInDB"}

InitRole ==
  /\ \E A \in {{}, {"a2"}} : StoreOf("ALLOCATED", A, 1)
  /\ InitExtra(TRUE, "OFFLINE", [a \in Amphorae |-> "none"])
  /\ InitEngine

StartRole(w) ==
  \E fl \in {<<t>> : t \in RoleTasks} \cup (RoleTasks \X RoleTasks), sel \in 1..2 :
    Start(w, fl, [ArgNull EXCEPT !.sel = sel])

NextRole ==
  \E w \in Workflows :
       \/ StartRole(w)
       \/ DownstreamFailure(w)
       \/ FlowSucceeds(w)
       \/ MarkAmphoraMasterInDB_execute(w)
       \/ MarkAmphoraMasterInDB_revert(w)
       \/ MarkAmphoraBackupInDB_execute(w)
       \/ MarkAmphoraBackupInDB_revert(w)
       \/ MarkAmphoraStandAloneInDB_execute(w)
       \/ MarkAmphoraStandAloneInDB_revert(w)

SpecRole == InitRole /\ [][NextRole]_vars

\* ---- the health coordination tasks of one workflow
InitHealth ==
  /\ \E A \in {{}, CascadeOf("lb1"), {"a2"}}, L \in {{}, {"a1"}, Amphorae} :
       /\ prov = [e \in Entities |-> IF e \in A THEN ABSENT ELSE "ACTIVE"]
       /\ amp = [a \in Amphorae |->
                   [AmpNull EXCEPT !.load_balancer_id = IF a \in L THEN "lb1" ELSE NoneId]]
  /\ cfg = [e \in Entities |-> "old"]
  /\ quota = [k \in QuotaKinds |-> 1]
  /\ enabled = [e \in Entities |-> TRUE]
  /\ oper = [e \in Entities |-> "OFFLINE"]
  /\ amp_health \in [Amphorae -> {"none", "idle", "busy"}]
  /\ server_group_id \in {NoneId, "sg0"}
  /\ vrrp_group \in {<<>>, <<[load_balancer_id |-> "lb1", vrrp_auth_pass |-> "pass0"]>>}
  /\ InitEngine

StartHealth(w) ==
  LET tasks == {r.task : r \in HealthTasks}
                 \cup {"UpdateLBServerGroupInDB", "CreateVRRPGroupForLB"}
  IN \E fl \in {<<t>> : t \in tasks} \cup (tasks \X tasks), sel \in 1..2 :
       Start(w, fl, [ArgNull EXCEPT !.sel = sel])

NextHealth ==
  \E w \in {"w1"} :
       \/ StartHealth(w)
       \/ DownstreamFailure(w)
       \/ FlowSucceeds(w)
       \/ HealthTask_execute(w)
       \/ HealthTask_revert(w)
       \/ UpdateLBServerGroupInDB_execute(w)
       \/ UpdateLBServerGroupInDB_revert(w)
       \/ CreateVRRPGroupForLB_execute(w)
       \/ CreateVRRPGroupForLB_revert(w)

SpecHealth == InitHealth /\ [][NextHealth]_vars




C2_RevertNeverRaises == \A w \in Workflows : ~revRaised[w]

\* C3 as stated: when execute of a task succeeded on an existing row, a later
\* task failed and no repository call of the revert failed, the row the task is
\* about is not left exactly as execute left it.
C3_RevertMovesTargetAway ==
  \A w \in Workflows :
    (/\ phase[w] = "reverted"
     /\ Len(flow[w]) = 1
     /\ results[w] = <<"ok">>
     /\ ~revFail[w]
     /\ ~revRaised[w]
     /\ postExec[w].pre.prov # ABSENT)
    => TargetStateIn(prov, cfg, amp, quota, postExec[w].e) # postExec[w].st

\* C5 as stated: execute of a delete task whose target row does not exist
\* returns normally and changes nothing (the store itself being reachable).
C5_DeleteOfMissingRowSucceeds ==
  [][\A w \in Workflows :
       LET t == flow[w][pos[w]]
           target == CASE t = "DeleteHealthMonitorInDB" -> "hm1"
                       [] t = "DeleteMemberInDB" -> TargetMember(w)
                       [] t = "DeleteListenerInDB" -> TargetListener(w)
                       [] t = "DeletePoolInDB" -> "pool1"
                       [] t = "DeleteL7PolicyInDB" -> "p1"
                       [] OTHER -> TargetRule(w)
       IN (/\ phase[w] = "exec"
           /\ pos[w] <= Len(flow[w])
           /\ t \in {"DeleteHealthMonitorInDB", "DeleteMemberInDB", "DeleteListenerInDB",
                     "DeletePoolInDB", "DeleteL7PolicyInDB", "DeleteL7RuleInDB"}
           /\ prov[target] = ABSENT
           /\ results'[w] # results[w]
           /\ fault'[w] # "DBError")
          => /\ results'[w] = Append(results[w], "ok")
             /\ store' = store]_vars

C6_FailedDecrementRollsBackAndReraises ==
  [][\A w \in Workflows :
       (/\ phase[w] = "exec"
        /\ pos[w] <= Len(flow[w])
        /\ flow[w][pos[w]] \in QuotaTasks
        /\ results'[w] = Append(results[w], Failure))
       => /\ quota' = quota
          /\ phase'[w] = "revert"
          /\ fault'[w] \in {"DBError", "QuotaException"}]_vars

\* DecrementPoolQuota.execute failed after its Pool decrement had been made in
\* the session: the HealthMonitor counter had nothing left to decrement.
C6_Witness ==
  \E w \in Workflows :
    /\ flow[w] = <<"DecrementPoolQuota">>
    /\ results[w] = <<Failure>>
    /\ fault[w] = "QuotaException"
    /\ arg[w].h = 1
    /\ quota["Pool"] > 0
    /\ quota["HealthMonitor"] = 0

\* C7: DecrementPoolQuota.execute with child count {HM: h, member: m} either
\* returns with Pool decremented by 1, HealthMonitor by 1 when h > 0 and Member
\* by m when m > 0 and nothing else changed, or fails with no counter changed.
C7_PoolDecrementAllOrNothing ==
  [][\A w \in Workflows :
       (/\ phase[w] = "exec"
        /\ pos[w] <= Len(flow[w])
        /\ flow[w][pos[w]] = "DecrementPoolQuota"
        /\ results'[w] # results[w])
       => LET h == arg[w].h
              m == arg[w].m
              all == [k \in QuotaKinds |->
                        quota[k] - (CASE k = "Pool" -> 1
                                      [] k = "HealthMonitor" -> IF h > 0 THEN 1 ELSE 0
                                      [] k = "Member" -> m
                                      [] OTHER -> 0)]
          IN \/ results'[w] = Append(results[w], "ok") /\ quota' = all
             \/ results'[w] = Append(results[w], Failure) /\ quota' = quota]_vars

\* DecrementPoolQuota.execute returned for a pool with a health monitor and
\* more than one member, and all three counters went down.
C7_Witness ==
  \E w \in Workflows :
    /\ flow[w] = <<"DecrementPoolQuota">>
    /\ results[w] = <<"ok">>
    /\ arg[w].h = 1
    /\ arg[w].m = MaxMembers
    /\ postExec[w].pre.q["Member"] - postExec[w].st.q["Member"] = MaxMembers
    /\ postExec[w].pre.q["Pool"] - postExec[w].st.q["Pool"] = 1
    /\ postExec[w].pre.q["HealthMonitor"] - postExec[w].st.q["HealthMonitor"] = 1

C9_FailedReincrementIsSwallowed ==
  [][\A w \in Workflows :
       (\E k \in QuotaKinds : nfailed'[w][k] > nfailed[w][k])
       => /\ quota' = quota
          /\ ~revRaised'[w]
          /\ phase'[w] \in {"revert", "reverted"}
          /\ \A k \in QuotaKinds :
               /\ attempts'[w][k] <= postExec[w].pre.q[k] - postExec[w].st.q[k]
               /\ attempts'[w][k] - attempts[w][k] =
                    nfailed'[w][k] - nfailed[w][k]]_vars

\* A single-counter revert failed its one attempt and returned: the counter
\* kept its decremented value.
C9_Witness ==
  \E w \in Workflows :
    /\ phase[w] = "reverted"
    /\ flow[w] = <<"DecrementHealthMonitorQuota">>
    /\ results[w] = <<"ok">>
    /\ nfailed[w]["HealthMonitor"] = 1
    /\ attempts[w]["HealthMonitor"] = 1
    /\ reinc[w]["HealthMonitor"] = 0
    /\ ~revRaised[w]

MarkLBActiveInDB_updates(p) ==
  Concat([i \in 1..Len(Existing(p, ListenersOfLB("lb1"))) |->
            ListenerWalk(p, Existing(p, ListenersOfLB("lb1"))[i])]) \o <<"lb1">>

\* C12: after MarkLBActiveInDB.execute with mark_subobjects succeeds, the load
\* balancer and every listener, L7 policy, L7 rule, pool, health monitor and
\* member of it is ACTIVE, and each of these rows was updated exactly once.
C12_EveryRowActiveUpdatedOnce ==
  [][(/\ AtExec("w1", "MarkLBActiveInDB+sub")
      /\ results'["w1"] = Append(results["w1"], "ok")) =>
       \A e \in Entities \ Amphorae :
          prov[e] # ABSENT =>
            /\ prov'[e] = "ACTIVE"
            /\ LET seq == MarkLBActiveInDB_updates(prov)
               IN Cardinality({i \in 1..Len(seq) : seq[i] = e}) = 1]_vars

\* C13: in the cascading walk of MarkLBActiveInDB (ACTIVE in execute, ERROR in
\* revert) a failing status update of a single node does not abort the walk:
\* every other node of the walk still receives the target status.  A call in
\* which the store accepted an update is one in which at most one update
\* failed (FailSets), so after it at most one row of the walk is without the
\* target status.
C13_SingleFailureDoesNotAbortWalk ==
  [][\A status \in {"ACTIVE", "ERROR"} :
       ( /\ IF status = "ACTIVE" THEN AtExec("w1", "MarkLBActiveInDB+sub")
                                 ELSE AtRevert("w1", "MarkLBActiveInDB+sub")
         /\ prov' # prov )
       => Cardinality({e \in Range(MarkLBActiveInDB_updates(prov)) :
                         prov'[e] # status}) <= 1]_vars

\* The rows a row hangs under in the walk: its immediate parents.
ParentsOf(e) ==
  IF e \in Listeners THEN {LBOfListener(e)}
  ELSE IF e \in L7Policies THEN {l \in Listeners : e \in Range(L7PoliciesOf(l))}
  ELSE IF e \in L7Rules THEN {q \in L7Policies : e \in Range(L7RulesOf(q))}
  ELSE IF e \in Pools
    THEN {l \in Listeners : e \in Range(DefaultPoolOf(l))}
           \cup {q \in L7Policies : e \in Range(RedirectPoolOf(q))}
  ELSE IF e \in HealthMonitors THEN {q \in Pools : e \in Range(HealthMonitorOf(q))}
  ELSE IF e \in Members THEN {q \in Pools : e \in Range(MembersOf(q))}
  ELSE {}

\* C14: in the cascading walk (execute and revert) every node is updated after
\* its immediate parent: the load balancer before its listeners, a listener
\* before its L7 policies and default pool, a policy before its rules and
\* redirect pool, a pool before its health monitor and members.
C14_ParentUpdatedBeforeChild ==
  \A i \in 1..Len(marked) :
     ParentsOf(marked[i]) # {} =>
       \E j \in 1..(i - 1) : marked[j] \in ParentsOf(marked[i])

\* C14 as the code has it: below the load balancer every node is updated
\* after its immediate parent; the load balancer itself is updated last, after
\* the walks of all its listeners.
C14_ParentFirstBelowLoadBalancerLast ==
  \A i \in 1..Len(marked) :
     /\ marked[i] \in LoadBalancers => i = Len(marked)
     /\ (marked[i] \notin Listeners /\ ParentsOf(marked[i]) # {}) =>
          \E j \in 1..(i - 1) : marked[j] \in ParentsOf(marked[i])

\* A revert walked both listeners with everything under them, then marked the
\* load balancer.
C14_Witness ==
  /\ phase["w1"] = "reverted"
  /\ flow["w1"] = <<"MarkLBActiveInDB+sub">>
  /\ marked = <<"l1", "p1", "r1", "r2", "pool1", "hm1", "m1", "m2",
                "l2", "pool1", "hm1", "m1", "m2", "lb1">>
  /\ prov["r2"] = "ERROR"

\* --------------------------------------------------- operating status
\* C15: every mark-ACTIVE task of an entity carrying operating_status (health
\* monitor, L7 policy, member, pool) sets, in the update that sets
\* provisioning_status ACTIVE, operating_status to ONLINE when the stored row
\* is enabled and to OFFLINE otherwise.
C15_MarkActiveDerivesOperatingStatus ==
  [][\A t \in {"MarkHealthMonitorActiveInDB", "MarkL7PolicyActiveInDB",
                "MarkMemberActiveInDB", "MarkPoolActiveInDB"} :
       (/\ AtExec("w1", t)
        /\ results'["w1"] = Append(results["w1"], "ok")
        /\ prov[postExec'["w1"].e] # ABSENT) =>
          /\ prov'[postExec'["w1"].e] = "ACTIVE"
          /\ oper'[postExec'["w1"].e] =
               IF enabled[postExec'["w1"].e] THEN "ONLINE" ELSE "OFFLINE"]_vars

\* C15 as the code has it: the mark-ACTIVE tasks of health monitor, L7 policy
\* and L7 rule write the operating_status derived from the enabled flag in the
\* update that sets ACTIVE; those of member and pool set ACTIVE and leave
\* operating_status as it was; no other row changes.
C15_OnlyGetThenMarkDerivesOperatingStatus ==
  [][\A t \in MarkActiveTasks :
       (AtExec("w1", t) /\ results'["w1"] = Append(results["w1"], "ok")) =>
         LET e == postExec'["w1"].e
         IN /\ prov[e] # ABSENT => prov'[e] = "ACTIVE"
            /\ oper'[e] = IF t \in {"MarkMemberActiveInDB", "MarkPoolActiveInDB"}
                            THEN oper[e]
                            ELSE IF enabled[e] THEN "ONLINE" ELSE "OFFLINE"
            /\ \A x \in Entities \ {e} : oper'[x] = oper[x]]_vars

\* A disabled health monitor that was ONLINE has been marked ACTIVE and OFFLINE.
C15_Witness ==
  /\ flow["w1"] = <<"MarkHealthMonitorActiveInDB">>
  /\ phase["w1"] = "success"
  /\ ~enabled["hm1"]
  /\ prov["hm1"] = "ACTIVE"
  /\ oper["hm1"] = "OFFLINE"
  /\ oper["m1"] = "ONLINE"

\* ------------------------------------------------------- amphora roles
\* C16: the revert of MarkAmphoraMasterInDB, MarkAmphoraBackupInDB and
\* MarkAmphoraStandAloneInDB after a successful execute clears role and
\* vrrp_priority in one update: the revert leaves the row with both cleared
\* or, when the compensating write fails or the row is gone, as it was; never
\* with one cleared and the other kept.
C16_RevertClearsRoleAndPriorityTogether ==
  [][\A w \in Workflows :
       (/\ \E t \in RoleTasks : AtRevert(w, t)
        /\ Result(w) = "ok"
        /\ pos'[w] # pos[w] \/ phase'[w] # phase[w]) =>
          LET a == TargetAmphora(w)
          IN \/ amp' = amp
             \/ /\ amp'[a].role = NoneId
                /\ amp'[a].vrrp_priority = {}
                /\ \A f \in DOMAIN amp[a] \ {"role", "vrrp_priority"} : amp'[a][f] = amp[a][f]
                /\ \A b \in Amphorae \ {a} : amp'[b] = amp[b]]_vars

\* Workflow w1 made the amphora MASTER and was reverted with a compensating
\* write that failed: role and priority are both still there.
C16_Witness ==
  /\ flow["w1"] = <<"MarkAmphoraMasterInDB">>
  /\ phase["w1"] = "reverted"
  /\ results["w1"] = <<"ok">>
  /\ revFail["w1"]
  /\ phase["w2"] = "idle"
  /\ amp["a1"].role = "MASTER"
  /\ amp["a1"].vrrp_priority = {ROLE_MASTER_PRIORITY}

\* C17: after any sequence of executes and reverts of the three role tasks on
\* an amphora that started with role and vrrp_priority unset, a MASTER or
\* BACKUP amphora has the priority constant of its role, and a STANDALONE
\* amphora or one without role has no vrrp_priority.
C17_RoleDeterminesPriority ==
  \A a \in Amphorae :
     amp[a].vrrp_priority =
       CASE amp[a].role = "MASTER" -> {ROLE_MASTER_PRIORITY}
         [] amp[a].role = "BACKUP" -> {ROLE_BACKUP_PRIORITY}
         [] OTHER -> {}

\* One workflow made the amphora BACKUP and was reverted, the other then made
\* it MASTER and STANDALONE and its STANDALONE was reverted.
C17_Witness ==
  /\ flow["w1"] = <<"MarkAmphoraBackupInDB">>
  /\ phase["w1"] = "reverted"
  /\ results["w1"] = <<"ok">>
  /\ flow["w2"] = <<"MarkAmphoraMasterInDB", "MarkAmphoraStandAloneInDB">>
  /\ results["w2"] = <<"ok", "ok">>
  /\ phase["w2"] = "revert"
  /\ pos["w2"] = 1
  /\ arg["w1"].sel = 1
  /\ arg["w2"].sel = 1
  /\ amp["a1"].role = NoneId

\* ------------------------------------------------ health coordination
\* C18: DisableAmphoraHealthMonitoring.execute on an amphora without an
\* AmphoraHealth record returns successfully and changes nothing; with a
\* record it removes it; executing it a second time changes nothing more.
\* Only a database error makes it raise, and then nothing has changed.
C18_DisableHealthMonitoringIsIdempotent ==
  [][(AtExec("w1", "DisableAmphoraHealthMonitoring") /\ results'["w1"] # results["w1"]) =>
       LET a == TargetAmphora("w1")
       IN /\ store' = store
          /\ \/ /\ results'["w1"] = Append(results["w1"], Failure)
                /\ fault'["w1"] = "DBError"
                /\ amp_health' = amp_health
             \/ /\ results'["w1"] = Append(results["w1"], "ok")
                /\ amp_health' = [amp_health EXCEPT ![a] = "none"]
                /\ amp_health[a] = "none" => amp_health' = amp_health]_vars

\* The task ran twice on amphora a1; the second run found no record and
\* returned; the record of a2 is as it was.
C18_Witness ==
  /\ flow["w1"] = <<"DisableAmphoraHealthMonitoring", "DisableAmphoraHealthMonitoring">>
  /\ results["w1"] = <<"ok", "ok">>
  /\ arg["w1"].sel = 1
  /\ amp_health = [a \in Amphorae |-> IF a = "a1" THEN "none" ELSE "busy"]

\* C19: MarkAmphoraHealthBusy.execute sets busy on the AmphoraHealth record of
\* the amphora when there is one, and returns successfully without creating a
\* record when there is none; the set of existing records is the same after
\* it as before.
C19_MarkBusyCreatesNoRecord ==
  [][(AtExec("w1", "MarkAmphoraHealthBusy") /\ results'["w1"] # results["w1"]) =>
       LET a == TargetAmphora("w1")
       IN /\ store' = store
          /\ {b \in Amphorae : amp_health'[b] # "none"}
               = {b \in Amphorae : amp_health[b] # "none"}
          /\ \/ /\ results'["w1"] = Append(results["w1"], Failure)
                /\ fault'["w1"] = "DBError"
                /\ amp_health' = amp_health
             \/ /\ results'["w1"] = Append(results["w1"], "ok")
                /\ amp_health' = [amp_health EXCEPT
                                    ![a] = IF @ = "none" THEN "none" ELSE "busy"]]_vars

\* The task returned on amphora a2, which has no record; a1 has one that is
\* not busy.
C19_Witness ==
  /\ flow["w1"] = <<"MarkAmphoraHealthBusy">>
  /\ results["w1"] = <<"ok">>
  /\ arg["w1"].sel = 2
  /\ amp_health = [a \in Amphorae |-> IF a = "a1" THEN "idle" ELSE "none"]

\* C20: the health coordination tasks have no compensation: while the
\* workflow is reverting, the AmphoraHealth records stay as the executes left
\* them.
C20_HealthTasksHaveNoCompensation ==
  [][phase["w1"] = "revert" => amp_health' = amp_health]_vars

\* A workflow that removed the record of a1 and marked a2 of the load
\* balancer busy has been reverted: the record is still gone, a2 still busy.
C20_Witness ==
  /\ flow["w1"] = <<"DisableAmphoraHealthMonitoring", "MarkLBAmphoraeHealthBusy">>
  /\ results["w1"] = <<"ok", "ok">>
  /\ phase["w1"] = "reverted"
  /\ arg["w1"].sel = 1
  /\ amp["a2"].load_balancer_id = "lb1"
  /\ amp_health = [a \in Amphorae |-> IF a = "a1" THEN "none" ELSE "busy"]

\* ------------------------------------------------ quota in the workflows
\* C21: in the pool delete workflow CountPoolChildrenForQuota runs before
\* DeletePoolInDB and DecrementPoolQuota after it.  The count changes no
\* stored state and hands on the number of health monitors and members the
\* pool has; the delete leaves that count as it is and removes the children;
\* the decrement then takes exactly that number of members from the Member
\* counter, and one from the HealthMonitor counter exactly when the pool had a
\* health monitor.
C21_PoolChildrenCountedBeforeDelete ==
  [][flow["w1"] = <<"MarkPoolPendingDeleteInDB", "CountPoolChildrenForQuota",
                    "DeletePoolInDB", "DecrementPoolQuota">> =>
       LET ok == results'["w1"] = Append(results["w1"], "ok")
           hms == Len(Existing(prov, HealthMonitorOf("pool1")))
           members == Len(Existing(prov, MembersOf("pool1")))
       IN /\ AtExec("w1", "CountPoolChildrenForQuota") =>
               /\ store' = store
               /\ ok => arg'["w1"].h = hms /\ arg'["w1"].m = members
          /\ (AtExec("w1", "DeletePoolInDB") /\ ok) =>
               /\ arg'["w1"] = arg["w1"]
               /\ \A e \in CascadeOf("pool1") : prov'[e] = ABSENT
          /\ (AtExec("w1", "DecrementPoolQuota") /\ ok) =>
               /\ hms = 0 /\ members = 0
               /\ quota'["Member"] = quota["Member"] - arg["w1"].m
               /\ quota'["HealthMonitor"] =
                    quota["HealthMonitor"] - (IF arg["w1"].h > 0 THEN 1 ELSE 0)
               /\ quota'["Pool"] = quota["Pool"] - 1]_vars

\* The pool delete workflow succeeded on a pool with a health monitor and two
\* members: the rows are gone and the counters, which all started at
\* MaxInUse, are two and one lower.
C21_Witness ==
  /\ flow["w1"] = <<"MarkPoolPendingDeleteInDB", "CountPoolChildrenForQuota",
                    "DeletePoolInDB", "DecrementPoolQuota">>
  /\ phase["w1"] = "success"
  /\ arg["w1"].m = 2
  /\ arg["w1"].h = 1
  /\ prov["m1"] = ABSENT /\ prov["m2"] = ABSENT /\ prov["hm1"] = ABSENT
  /\ quota["LoadBalancer"] = MaxInUse
  /\ quota["Member"] = MaxInUse - 2
  /\ quota["HealthMonitor"] = MaxInUse - 1
  /\ quota["Pool"] = MaxInUse - 1

\* ------------------------------------------------------ amphora records
\* C22: AssociateFailoverAmphoraWithLBID.revert removes the association that
\* execute wrote: after execute and then revert, with no repository call of
\* the revert failing, load_balancer_id of the amphora is None.
C22_RevertRemovesAssociation ==
  (/\ flow["w1"] = <<"AssociateFailoverAmphoraWithLBID">>
   /\ results["w1"] = <<"ok">>
   /\ phase["w1"] = "reverted"
   /\ ~revFail["w1"])
  => amp[TargetAmphora("w1")].load_balancer_id = NoneId

\* C23: CreateAmphoraInDB.execute creates one amphora record with status
\* PENDING_CREATE and cert_busy false and returns its id; revert with that id
\* as result stores the amphora in error state: afterwards the record still
\* exists and has status ERROR.
C23_RevertStoresAmphoraInError ==
  /\ [][(AtExec("w1", "CreateAmphoraInDB")
           /\ results'["w1"] = Append(results["w1"], "ok")) =>
          LET a == arg'["w1"].created
          IN /\ prov[a] = ABSENT
             /\ prov' = [prov EXCEPT ![a] = "PENDING_CREATE"]
             /\ ~amp'[a].cert_busy]_vars
  /\ []((/\ flow["w1"] = <<"CreateAmphoraInDB">>
          /\ results["w1"] = <<"ok">>
          /\ phase["w1"] = "reverted"
          /\ ~revFail["w1"])
         => prov[arg["w1"].created] = "ERROR")

\* C24: UpdateL7RuleInDB.revert marks the L7 rule ERROR: after the revert,
\* when the repository is available, the provisioning_status of the L7 rule
\* that execute updated is ERROR.
C24_RevertMarksL7RuleError ==
  (/\ flow["w1"] = <<"UpdateL7RuleInDB">>
   /\ results["w1"] = <<"ok">>
   /\ phase["w1"] = "reverted"
   /\ ~revFail["w1"]
   /\ prov[TargetRule("w1")] # ABSENT)
  => prov[TargetRule("w1")] = "ERROR"

\* C25: for the tasks whose revert tests its result (CreateAmphoraInDB, the
\* three MarkAmphora<Role>InDB tasks, MarkAmphoraAllocatedInDB,
\* MarkAmphoraBootingInDB and the seven Decrement...Quota tasks), a revert
\* called with a Failure as result opens no write and leaves every amphora
\* field and every quota counter unchanged, while a revert called with a
\* normal result performs the compensating write: a re-increment attempt for
\* a quota task, the delete, the clearing of the role or the ERROR status for
\* an amphora task.
C25_RevertTestsItsResult ==
  [][\A w \in Workflows :
       (/\ phase[w] = "revert"
        /\ flow[w][pos[w]] \in ResultTestingTasks
        /\ pos'[w] # pos[w] \/ phase'[w] # phase[w] \/ attempts'[w] # attempts[w])
       => LET t == flow[w][pos[w]]
              a == IF t = "CreateAmphoraInDB" THEN arg[w].created ELSE TargetAmphora(w)
          IN IF Result(w) = Failure
               THEN /\ prov' = prov /\ amp' = amp /\ quota' = quota
                    /\ attempts'[w] = attempts[w]
                    /\ nfailed'[w] = nfailed[w]
                    /\ revFail'[w] = revFail[w]
             ELSE IF t \in QuotaTasks
               THEN \E k \in QuotaKinds :
                      /\ attempts'[w] = [attempts[w] EXCEPT ![k] = @ + 1]
                      /\ nfailed'[w] = nfailed[w] => quota' = CheckQuotaMet(quota, k)
             ELSE (~revFail'[w] /\ prov[a] # ABSENT) =>
                    CASE t = "CreateAmphoraInDB" -> prov'[a] = ABSENT
                      [] t \in {"MarkAmphoraAllocatedInDB", "MarkAmphoraBootingInDB"} ->
                           prov'[a] = "ERROR"
                      [] OTHER -> amp'[a].role = NoneId /\ amp'[a].vrrp_priority = {}]_vars

\* A revert of MarkAmphoraBootingInDB was called with the normal result of its
\* execute and left the amphora in ERROR.
C25_Witness ==
  /\ flow["w1"] = <<"MarkAmphoraBootingInDB">>
  /\ results["w1"] = <<"ok">>
  /\ phase["w1"] = "reverted"
  /\ prov[TargetAmphora("w1")] = "ERROR"
  /\ postExec["w1"].st.prov = "BOOTING"

\* C26: with no concurrent quota activity (the other workflow never started),
\* no repository failure and every counter within the project's limit before
\* execute, DecrementPoolQuota.execute followed by its revert with the normal
\* result returns the Pool, HealthMonitor and Member counters (and every
\* other counter) to exactly their values before execute, for every child
\* count {HM: h, member: m}.
C26_PoolQuotaRoundTrip ==
  \A w \in Workflows :
    (/\ flow[w] = <<"DecrementPoolQuota">>
     /\ results[w] = <<"ok">>
     /\ phase[w] = "reverted"
     /\ \A o \in Workflows \ {w} : phase[o] = "idle"
     /\ nfailed[w] = ZeroCount
     /\ \A k \in QuotaKinds : postExec[w].pre.q[k] <= QuotaLimit)
    => quota = postExec[w].pre.q

\* The round trip of a pool with a health monitor and MaxMembers members,
\* started with every counter at the limit.
C26_Witness ==
  /\ flow["w1"] = <<"DecrementPoolQuota">>
  /\ results["w1"] = <<"ok">>
  /\ phase["w1"] = "reverted"
  /\ phase["w2"] = "idle"
  /\ nfailed["w1"] = ZeroCount
  /\ arg["w1"].h = 1
  /\ arg["w1"].m = MaxMembers
  /\ postExec["w1"].pre.q["Member"] = QuotaLimit
  /\ postExec["w1"].st.q["Member"] = QuotaLimit - MaxMembers
  /\ postExec["w1"].st.q["HealthMonitor"] = QuotaLimit - 1
  /\ quota = postExec["w1"].pre.q

\* C27: for DecrementL7policyQuota, the number of L7Rule re-increment attempts
\* made by revert equals the quantity by which execute decremented the L7Rule
\* counter, whatever other tasks (such as deleting the L7 policy) ran between
\* execute and revert.  In the L7 policy delete flow only this task touches
\* the counters and all counters start equal, so the quantity execute took is
\* the distance of the L7Rule counter from the untouched LoadBalancer counter
\* plus what the revert gave back.
C27_RuleAttemptsEqualDecrement ==
  \A w \in Workflows :
    (/\ flow[w] = <<"MarkL7PolicyPendingDeleteInDB", "DecrementL7policyQuota",
                    "DeleteL7PolicyInDB">>
     /\ phase[w] = "reverted"
     /\ Len(results[w]) >= 2
     /\ results[w][2] = "ok"
     /\ ~revFail[w]
     /\ ~revRaised[w])
    => attempts[w]["L7Rule"] =
         (quota["LoadBalancer"] - quota["L7Rule"]) + reinc[w]["L7Rule"]

\* C28: DecrementL7policyQuota.execute decrements L7Policy by 1 and L7Rule by
\* the number of rules of the policy inside one locking session: it either
\* returns with both decrements committed, or (the policy lookup, a decrement
\* or the commit failed) the session is rolled back, no counter is changed
\* and the exception is re-raised.
C28_L7PolicyQuotaAllOrNothing ==
  [][\A w \in Workflows :
       (AtExec(w, "DecrementL7policyQuota") /\ results'[w] # results[w])
       => \/ /\ results'[w] = Append(results[w], "ok")
             /\ quota' = [quota EXCEPT !["L7Policy"] = @ - 1,
                                        !["L7Rule"] = @ - RuleCount(prov, "p1")]
          \/ /\ results'[w] = Append(results[w], Failure)
             /\ quota' = quota
             /\ fault'[w] \in {"DBError", "QuotaException"}
             /\ phase'[w] = "revert"]_vars

\* The decrement of two rules was refused after the L7Policy decrement had
\* been made in the session: execute raised and the L7Policy counter is back.
C28_Witness ==
  /\ flow["w1"] = <<"DecrementL7policyQuota">>
  /\ results["w1"] = <<Failure>>
  /\ fault["w1"] = "QuotaException"
  /\ RuleCount(prov, "p1") = 2
  /\ quota["L7Policy"] = 1
  /\ quota["L7Rule"] = 1
  /\ phase["w2"] = "idle"

\* C29: if a sub-object status update fails during MarkLBActiveInDB.execute
\* with mark_subobjects (the call made fewer sub-object updates than the walk
\* of the stored tree has), the exception propagates out of execute and the
\* load balancer itself is not updated by that execute.
C29_SubobjectFailurePropagates ==
  [][(/\ AtExec("w1", "MarkLBActiveInDB+sub")
      /\ results'["w1"] # results["w1"]
      /\ Len(SelectSeq(marked', LAMBDA e : e # "lb1"))
            < Len(MarkLBActiveInDB_updates(prov)) - 1)
     => /\ results'["w1"] = Append(results["w1"], Failure)
        /\ phase'["w1"] = "revert"
        /\ fault'["w1"] # "none"
        /\ "lb1" \notin Range(marked')
        /\ prov'["lb1"] = prov["lb1"]]_vars

\* The update of rule r2 failed in the walk of listener l1: execute raised
\* after marking l1, p1 and r1 ACTIVE, and the load balancer is not ACTIVE.
C29_Witness ==
  /\ flow["w1"] = <<"MarkLBActiveInDB+sub">>
  /\ results["w1"] = <<Failure>>
  /\ phase["w1"] = "revert"
  /\ marked = <<"l1", "p1", "r1">>
  /\ prov["r1"] = "ACTIVE"
  /\ prov["r2"] = "PENDING_UPDATE"
  /\ prov["lb1"] = "PENDING_UPDATE"

\* C30: in MarkLBActiveInDB.revert with mark_subobjects, when marking the
\* subtree of one listener ERROR fails (the walk of listener l1 was not
\* completed), the subtree of the remaining listener is still attempted and
\* the load balancer itself is still marked ERROR.  The calls looked at are
\* those in which the store accepted an update, so the failure is that of a
\* single row (FailSets) and the attempt on the next listener is visible.
C30_RevertGoesOnAfterFailedListener ==
  [][LET first == ListenerWalk(prov, "l1")
     IN (/\ AtRevert("w1", "MarkLBActiveInDB+sub")
         /\ pos'["w1"] # pos["w1"] \/ phase'["w1"] # phase["w1"]
         /\ prov' # prov
         /\ prov["l1"] # ABSENT /\ prov["l2"] # ABSENT
         /\ \/ Len(marked') < Len(first)
            \/ SubSeq(marked', 1, Len(first)) # first)
        => /\ "l2" \in Range(marked')
           /\ prov'["l2"] = "ERROR"
           /\ marked'[Len(marked')] = "lb1"
           /\ prov'["lb1"] = "ERROR"
           /\ ~revRaised'["w1"]]_vars

\* The update of rule r2 failed in the walk of listener l1: the revert went on
\* with the whole subtree of l2 and marked the load balancer ERROR.
C30_Witness ==
  /\ flow["w1"] = <<"MarkLBActiveInDB+sub">>
  /\ phase["w1"] = "reverted"
  /\ revFail["w1"]
  /\ marked = <<"l1", "p1", "r1", "l2", "pool1", "hm1", "m1", "m2", "lb1">>
  /\ prov["r2"] = "ACTIVE"
  /\ prov["m2"] = "ERROR"
  /\ prov["lb1"] = "ERROR"

\* C31: MarkLBActiveInDB without mark_subobjects touches only the row of the
\* load balancer: an execute that returns sets it ACTIVE, a revert whose
\* update is accepted sets it ERROR, and both leave the provisioning_status of
\* every listener, L7 policy, L7 rule, pool, health monitor and member (and
\* every other column and counter) as it was.
C31_OnlyLoadBalancerRowTouched ==
  [][(/\ phase["w1"] \in {"exec", "revert"}
      /\ pos["w1"] <= Len(flow["w1"])
      /\ flow["w1"][pos["w1"]] = "MarkLBActiveInDB"
      /\ pos'["w1"] # pos["w1"] \/ phase'["w1"] # phase["w1"])
     => /\ \A e \in Entities \ {"lb1"} : prov'[e] = prov[e]
        /\ UNCHANGED <<cfg, amp, quota, enabled, oper>>
        /\ Range(marked') \subseteq {"lb1"}
        /\ prov'["lb1"] \in {prov["lb1"], IF phase["w1"] = "exec" THEN "ACTIVE" ELSE "ERROR"}
        /\ (/\ phase["w1"] = "exec"
            /\ results'["w1"] = Append(results["w1"], "ok")
            /\ prov["lb1"] # ABSENT) => prov'["lb1"] = "ACTIVE"
        /\ (/\ phase["w1"] = "revert"
            /\ revFail'["w1"] = revFail["w1"]
            /\ prov["lb1"] # ABSENT) => prov'["lb1"] = "ERROR"]_vars

\* The task ran and was reverted on a load balancer in PENDING_UPDATE: the load
\* balancer is in ERROR and everything under it is still PENDING_UPDATE.
C31_Witness ==
  /\ flow["w1"] = <<"MarkLBActiveInDB">>
  /\ results["w1"] = <<"ok">>
  /\ phase["w1"] = "reverted"
  /\ postExec["w1"].pre.prov = "PENDING_UPDATE"
  /\ postExec["w1"].st.prov = "ACTIVE"
  /\ marked = <<"lb1">>
  /\ prov["lb1"] = "ERROR"
  /\ \A e \in Entities \ ({"lb1"} \cup Amphorae) : prov[e] = "PENDING_UPDATE"

\* C35: after DisableLBAmphoraeHealthMonitoring.execute succeeds, no amphora of
\* the load balancer has an AmphoraHealth record, whichever of them had one
\* before (a missing record does not stop the loop); the records of amphorae
\* that do not belong to the load balancer are left as they were.
C35_NoHealthRecordLeftOnLB ==
  [][(/\ AtExec("w1", "DisableLBAmphoraeHealthMonitoring")
      /\ results'["w1"] = Append(results["w1"], "ok"))
     => \A a \in Amphorae :
          amp_health'[a] = IF a \in Range(AmphoraeOfLB(amp, prov, "lb1"))
                             THEN "none" ELSE amp_health[a]]_vars

\* The record of a1 was deleted by DisableAmphoraHealthMonitoring; then
\* DisableLBAmphoraeHealthMonitoring ran on the load balancer of a1 and a2,
\* found no record for a1, the first of its amphorae, and returned with no
\* record left.
C35_Witness ==
  /\ flow["w1"] = <<"DisableAmphoraHealthMonitoring", "DisableLBAmphoraeHealthMonitoring">>
  /\ results["w1"] = <<"ok", "ok">>
  /\ arg["w1"].sel = 1
  /\ AmphoraeOfLB(amp, prov, "lb1") = <<"a1", "a2">>
  /\ \A a \in Amphorae : amp_health[a] = "none"

\* C32: an execute of MarkLBAndListenersActiveInDB that returns has marked the
\* load balancer ACTIVE and each given listener ACTIVE only if it was not in
\* ERROR: a given listener in ERROR before execute is in ERROR after it, and
\* every other given listener is ACTIVE.
C32_ListenersActiveUnlessError ==
  [][(/\ AtExec("w1", "MarkLBAndListenersActiveInDB")
      /\ results'["w1"] = Append(results["w1"], "ok"))
     => /\ (arg["w1"].lb = "lb1" \/ (arg["w1"].lb = NoneId /\ arg["w1"].ls # <<>>))
             => (prov["lb1"] # ABSENT => prov'["lb1"] = "ACTIVE")
        /\ \A l \in Range(arg["w1"].ls) :
             /\ prov[l] = "ERROR" => prov'[l] = "ERROR"
             /\ prov[l] \notin {"ERROR", ABSENT} => prov'[l] = "ACTIVE"]_vars

\* Execute returned for the listeners l1 and l2, which were both in ERROR and
\* still are, while the load balancer went from ERROR to ACTIVE.
C32_Witness ==
  /\ flow["w1"] = <<"MarkLBAndListenersActiveInDB">>
  /\ results["w1"] = <<"ok">>
  /\ phase["w1"] = "exec"
  /\ arg["w1"].ls = <<"l1", "l2">>
  /\ postExec["w1"].pre.prov = "ERROR"
  /\ prov["lb1"] = "ACTIVE"
  /\ prov["l1"] = "ERROR"
  /\ prov["l2"] = "ERROR"

\* C33: MarkLBAndListenersActiveInDB selects its load balancer as
\* loadbalancer_id when given, otherwise as the load balancer of the first
\* listener, otherwise none, in execute and in revert alike: a call of either
\* changes no row but the selected load balancer and the given listeners, a
\* revert whose updates are accepted leaves exactly these rows in ERROR, a
\* returning execute leaves the selected load balancer ACTIVE, and with no id
\* and no listeners neither writes anything.
C33_SameSelectionInExecuteAndRevert ==
  [][(/\ phase["w1"] \in {"exec", "revert"}
      /\ pos["w1"] <= Len(flow["w1"])
      /\ flow["w1"][pos["w1"]] = "MarkLBAndListenersActiveInDB"
      /\ pos'["w1"] # pos["w1"] \/ phase'["w1"] # phase["w1"])
     => LET given == arg["w1"].ls
            selected == IF arg["w1"].lb # NoneId THEN {arg["w1"].lb}
                        ELSE IF given # <<>> THEN {LBOfListener(given[1])}
                        ELSE {}
            addressed == (selected \cup Range(given)) \cap Entities
        IN /\ \A e \in Entities \ addressed : prov'[e] = prov[e]
           /\ UNCHANGED <<cfg, amp, quota, extra>>
           /\ (phase["w1"] = "revert" /\ revFail'["w1"] = revFail["w1"])
                => \A e \in addressed : prov[e] # ABSENT => prov'[e] = "ERROR"
           /\ (phase["w1"] = "exec" /\ results'["w1"] = Append(results["w1"], "ok"))
                => \A e \in selected \cap Entities : prov[e] # ABSENT => prov'[e] = "ACTIVE"
           /\ (arg["w1"].lb = NoneId /\ given = <<>>) => prov' = prov]_vars

\* The task ran with no loadbalancer_id and the listener l2 and was reverted:
\* the load balancer of l2 and l2 are in ERROR, l1 is as it was.
C33_Witness ==
  /\ flow["w1"] = <<"MarkLBAndListenersActiveInDB">>
  /\ results["w1"] = <<"ok">>
  /\ phase["w1"] = "reverted"
  /\ ~revFail["w1"]
  /\ arg["w1"].lb = NoneId
  /\ arg["w1"].ls = <<"l2">>
  /\ postExec["w1"].st.prov = "ACTIVE"
  /\ prov["lb1"] = "ERROR"
  /\ prov["l2"] = "ERROR"
  /\ prov["l1"] = "PENDING_UPDATE"

\* C34: UpdateLBServerGroupInDB.revert removes the server group information:
\* after a revert none of whose repository calls failed, the server_group_id
\* of the load balancer is None, whatever it was before execute and whatever
\* execute stored; the revert changes no provisioning_status (and no other
\* stored state).
C34_RevertClearsServerGroup ==
  [][(/\ AtRevert("w1", "UpdateLBServerGroupInDB")
      /\ pos'["w1"] # pos["w1"] \/ phase'["w1"] # phase["w1"])
     => /\ prov' = prov
        /\ UNCHANGED <<cfg, amp, quota, enabled, oper, amp_health, vrrp_group>>
        /\ server_group_id' \in {server_group_id, NoneId}
        /\ (~revFail'["w1"] /\ prov["lb1"] # ABSENT) => server_group_id' = NoneId]_vars

\* Execute stored a server group for the existing load balancer, a later task
\* failed and the revert ran with the repository available: the server group
\* is None and the load balancer is still ACTIVE.
C34_Witness ==
  /\ flow["w1"] = <<"UpdateLBServerGroupInDB">>
  /\ results["w1"] = <<"ok">>
  /\ phase["w1"] = "reverted"
  /\ ~revFail["w1"]
  /\ prov["lb1"] = "ACTIVE"
  /\ server_group_id = NoneId

====
